---- MODULE Spec2Model ----
(***************************************************************************)
(* Registration engine of the questionnaire analyser:                      *)
(*   app/reference/ref.py          Reference, mask precomputation           *)
(*   app/questionnaire/distortion.py  Distortion: edge filter, landmark      *)
(*                                 matcher, least-squares affine fit        *)
(*   app/utilities/img.py, pixel.py   grayscale sentinels, Pixel            *)
(*   app/questionnaire/questionnaire.py  the box centres mapped by the      *)
(*                                 fitted transform                         *)
(*                                 Questionnaire: option images, crosses    *)
(*   app/__main__.py, task.py      the batch run over a source directory    *)
(*   app/stats/stats.py            labelled images, aggregated report       *)
(*                                                                         *)
(* Images are numpy arrays indexed [row][column] = [y][x], rows and columns *)
(* counted from 0; a cell is named <<i, j>> with i the row (y) and j the    *)
(* column (x).  Cell values are 8-bit unsigned integers (dtype uint8 of a   *)
(* mode 'L' image).                                                        *)
(***************************************************************************)
EXTENDS Integers, Sequences, FiniteSets, TLC

VARIABLES
    ref_image,                      \* Reference.__init__: ref_image (grayscale)
    sheet,                          \* rows of ref_pos_sig.xlsx: sequence of <<x, y>>
    pixel_mask_dict,                \* _ReferencePointsOfSignificanceLoader._pixel_mask_dict
    box_middle_pixel_array,         \* _ReferenceBoxLoader._box_middle_pixel_array
    image,                          \* Distortion.__init__: image (grayscale target)
    filtered_image_data,            \* Distortion.__init__: filtered_image_data
    p_of_sig_iter,                  \* Distortion.__init__: landmarks the loop has taken
                                    \* from ref.iter_ref_p_of_sig()
    ref_and_matching_p_of_sig_dict, \* Distortion._ref_and_matching_p_of_sig_dict
    params,                         \* Distortion._lin_tran_mtx, _translation_vec
    transformed,                    \* the Pixel the latest Pixel.transform returned
    pc,                             \* position in Reference() / Distortion() / its user,
                                    \* in Questionnaire(), in main()
    raised,                         \* the exception that left Distortion.__init__ / main()
    source_path,                    \* main: what source_path.iterdir() yields (suffixes)
    q_path_list,                    \* main: q_path_list
    target_path,                    \* main: target_path
    futures,                        \* main: the tasks ex.map submitted to the pool
    q_list,                         \* main: the list list(...) builds from the results;
                                    \* QuestionnaireStatsGenerator._q_list
    written,                        \* the files written below target_path
    questions,                      \* Questionnaire._questions
    bc,                             \* Questionnaire._bc
    option_iter                     \* Questionnaire: options the running loop is done with

\* the state of main(), of Questionnaire() and of QuestionnaireStatsGenerator
appVars == <<source_path, q_path_list, target_path, futures, q_list, written, questions, bc,
             option_iter>>

vars == <<ref_image, sheet, pixel_mask_dict, box_middle_pixel_array, image, filtered_image_data, p_of_sig_iter,
          ref_and_matching_p_of_sig_dict, params, transformed, pc, raised, appVars>>

-----------------------------------------------------------------------------
(* Sizes.  The program searches 25 pixels around a landmark for a mark of   *)
(* radius 20; the model keeps the algorithm and scales the two radii.       *)

default_search_radius == 1

default_mark_radius == 1

MaxLandmarks == 4

\* the questions of a questionnaire and the options of a question (14 and 5
\* in the program)
default_question_num == 1

default_option_num == 2

gray_scale_black == 0

gray_scale_white == 255

default_data_edge_filtering_threshold == 200

default_mark_edge_filtering_threshold == 200

Uint8 == 256

FilterRadius == default_search_radius + default_mark_radius

MaskLen == 2 * default_mark_radius + 1

Width == 2 * FilterRadius + 3

Height == 2 * FilterRadius + 2

Cells == (0 .. Height - 1) \X (0 .. Width - 1)

None == [kind |-> "None"]

Pixel(x, y) == [x |-> x, y |-> y]

-----------------------------------------------------------------------------
(* Binarization ("edge filtering").                                         *)

MutMarkBinarize(v) ==
    IF v <= default_mark_edge_filtering_threshold THEN gray_scale_black
                                                  ELSE gray_scale_white

\* ref.py 210-213: one cell of _ReferencePointsOfSignificanceLoader._filter_out_edge
MarkBinarize(v) ==
    IF v < default_mark_edge_filtering_threshold THEN gray_scale_black
                                                 ELSE gray_scale_white

MutDataBinarize(v, threshold) ==
    IF v < threshold THEN gray_scale_white ELSE gray_scale_black

\* distortion.py 251-254: one cell of Distortion._filter_out_edge
DataBinarize(v, threshold) ==
    IF v < threshold THEN gray_scale_black ELSE gray_scale_white

\* img.py 194-196: PIL crop of the box (x-r, y-r, x+r+1, y+r+1); cells of the
\* box that lie outside the image are filled with 0.
crop_around_middle_point(img, center_pixel, radius) ==
    [a \in 0 .. 2 * radius |-> [b \in 0 .. 2 * radius |->
        LET i == center_pixel.y - radius + a
            j == center_pixel.x - radius + b
        IN  IF i \in 0 .. Height - 1 /\ j \in 0 .. Width - 1 THEN img[i][j] ELSE 0]]

\* ref.py 207-214
mark_filter_out_edge(raw_mask_image) ==
    [i \in DOMAIN raw_mask_image |-> [j \in DOMAIN raw_mask_image[i] |->
        MarkBinarize(raw_mask_image[i][j])]]

\* numpy integer indexing of an axis of length n: a negative index counts
\* from the end, anything outside -n .. n-1 raises IndexError (-1 here).
NormIndex(i, n) ==
    IF i >= 0 /\ i < n THEN i
    ELSE IF i < 0 /\ i >= -n THEN i + n
    ELSE -1

\* distortion.py 247-248: the rows i of i_range and the columns j of j_range,
\* as numpy normalises them in image_data[i][j]
RegionRows(pixel, radius) ==
    { NormIndex(i, Height) : i \in (pixel.y - radius) .. (pixel.y + radius) }

\* a j_range that stops one column early
MutRegionCols(pixel, radius) ==
    { NormIndex(j, Width) : j \in (pixel.x - radius) .. (pixel.x + radius - 1) }

RegionCols(pixel, radius) ==
    { NormIndex(j, Width) : j \in (pixel.x - radius) .. (pixel.x + radius) }

RegionRaises(pixel, radius) ==
    -1 \in RegionRows(pixel, radius) \/ -1 \in RegionCols(pixel, radius)

\* distortion.py 246-254: the in-place filtering, one pixel after the other
RECURSIVE FilterPixels(_, _, _, _)
FilterPixels(image_data, pixels, edge_filtering_threshold, radius) ==
    IF pixels = <<>> THEN image_data
    ELSE LET rows == RegionRows(Head(pixels), radius)
             cols == RegionCols(Head(pixels), radius)
             next == [i \in 0 .. Height - 1 |-> [j \in 0 .. Width - 1 |->
                        IF i \in rows /\ j \in cols
                        THEN DataBinarize(image_data[i][j], edge_filtering_threshold)
                        ELSE image_data[i][j]]]
         IN  FilterPixels(next, Tail(pixels), edge_filtering_threshold, radius)

\* distortion.py 218-255: Distortion._filter_out_edge; IndexError when an
\* index leaves the array
data_filter_out_edge(img, pixels, edge_filtering_threshold, radius) ==
    IF \E k \in 1 .. Len(pixels) : RegionRaises(pixels[k], radius)
    THEN [kind |-> "IndexError"]
    ELSE [kind |-> "ndarray",
          data |-> FilterPixels(img, pixels, edge_filtering_threshold, radius)]

-----------------------------------------------------------------------------
(* Landmark matcher.                                                        *)

\* Python slice start:stop on an axis of length n (slice.indices, step 1)
SliceBound(k, n) ==
    LET s == IF k < 0 THEN k + n ELSE k
    IN  IF s < 0 THEN 0 ELSE IF s > n THEN n ELSE s

SliceIndices(start, stop, n) ==
    LET a == SliceBound(start, n)
        b == SliceBound(stop, n)
    IN  [k \in 1 .. (IF b > a THEN b - a ELSE 0) |-> a + k - 1]

\* distortion.py 197-198: array[y-r : y+r+1, x-r : x+r+1], a view of the
\* array: the rows and the columns of the array it shows
get_sub_array_around_middle_point(array, middle_index_y, middle_index_x, radius) ==
    [rows |-> SliceIndices(middle_index_y - radius, middle_index_y + radius + 1, Height),
     cols |-> SliceIndices(middle_index_x - radius, middle_index_x + radius + 1, Width)]

\* numpy broadcasting of one axis
Broadcastable(a, b) == a = b \/ a = 1 \/ b = 1

\* distortion.py 215: one cell of array_1 - array_2 on uint8 operands
CellDif(a, b) == (a - b) % Uint8

\* cell <<i, j>> of array_1 - array_2, array_1 the view `sub` of `array`
\* broadcast to the shape of the mask array_2
DifAt(array, sub, mask, i, j) ==
    CellDif(array[sub.rows[IF Len(sub.rows) = 1 THEN 1 ELSE i + 1]]
                 [sub.cols[IF Len(sub.cols) = 1 THEN 1 ELSE j + 1]],
            mask[i][j])

\* the sum of the squares of the cells k .. MaskLen^2 - 1 (row-major) of
\* array_1 - array_2
RECURSIVE SumSquares(_, _, _, _)
SumSquares(array, sub, mask, k) ==
    IF k >= MaskLen * MaskLen THEN 0
    ELSE LET v == DifAt(array, sub, mask, k \div MaskLen, k % MaskLen)
         IN  v * v + SumSquares(array, sub, mask, k + 1)

\* distortion.py 201-215: norm(array_1 - array_2, ord='fro').  The value kept
\* is the sum of squares under the root (the root is monotone, so `<` on the
\* norms is `<` on the sums); ValueError when the shapes do not broadcast.
get_dif_fro_norm(array, sub, mask) ==
    IF ~ (Broadcastable(Len(sub.rows), MaskLen) /\ Broadcastable(Len(sub.cols), MaskLen))
    THEN [kind |-> "ValueError"]
    ELSE [kind |-> "float", sq |-> SumSquares(array, sub, mask, 0)]

MutIterSearchArea(middle_point, search_radius) ==
    [k \in 1 .. (2 * search_radius) * (2 * search_radius) |->
        <<middle_point.y - search_radius + ((k - 1) \div (2 * search_radius)),
          middle_point.x - search_radius + ((k - 1) % (2 * search_radius))>>]

\* an x_search_range that starts one column early
MutWideSearchArea(middle_point, search_radius) ==
    LET n == 2 * search_radius + 1
    IN  [k \in 1 .. n * (n + 1) |->
            <<middle_point.y - search_radius + ((k - 1) \div (n + 1)),
              middle_point.x - search_radius - 1 + ((k - 1) % (n + 1))>>]

\* distortion.py 152-171: product(y_search_range, x_search_range), the
\* sequence of <<y, x>> with y in the outer and x in the inner position
iter_search_area(middle_point, search_radius) ==
    LET n == 2 * search_radius + 1
    IN  [k \in 1 .. n * n |->
            <<middle_point.y - search_radius + ((k - 1) \div n),
              middle_point.x - search_radius + ((k - 1) % n)>>]

\* distortion.py 143-145: the score of the candidate centre <<y, x>>
Score(filtered, yx, mask) ==
    get_dif_fro_norm(
        filtered,
        get_sub_array_around_middle_point(filtered, yx[1], yx[2], default_mark_radius),
        mask)

MutLess(dif, current) == current.maxsize \/ dif <= current.sq

\* distortion.py 146: dif_quad_sum < current_min_dif_quad_sum, where the
\* minimum starts as sys.maxsize, above every norm of a MaskLen x MaskLen
\* array of bytes
Less(dif, current) == current.maxsize \/ dif < current.sq

\* distortion.py 138-149: the scan, from candidate k on
RECURSIVE Scan(_, _, _, _, _, _)
Scan(filtered, cands, k, mask, current_min, current_best) ==
    IF k > Len(cands) THEN current_best
    ELSE LET d == Score(filtered, cands[k], mask)
         IN  IF d.kind = "ValueError" THEN d
             ELSE IF Less(d.sq, current_min)
                  THEN Scan(filtered, cands, k + 1, mask,
                            [maxsize |-> FALSE, sq |-> d.sq],
                            [kind |-> "Pixel", x |-> cands[k][2], y |-> cands[k][1]])
                  ELSE Scan(filtered, cands, k + 1, mask, current_min, current_best)

\* distortion.py 119-149: Distortion._find_matching_point_of_sig
find_matching_point_of_sig(filtered, ref_point, mask) ==
    Scan(filtered, iter_search_area(ref_point, default_search_radius), 1, mask,
         [maxsize |-> TRUE, sq |-> 0], None)

-----------------------------------------------------------------------------
(* The dictionary of Distortion.  A Python dict keeps its entries in the    *)
(* order of insertion; an entry is the key and, of the matched Pixel that   *)
(* is its value, the fields.  A key is a Pixel object of the Reference: the *)
(* Reference makes one Pixel per row of its sheet, and the object is named  *)
(* here by the number of its row.                                           *)

MutKeyEq(a, b) == sheet[a] = sheet[b]

\* pixel.py 8-28: Pixel defines neither __eq__ nor __hash__, so two keys are
\* the same key only when they are the same object
KeyEq(a, b) == a = b

\* distortion.py 56: self._ref_and_matching_p_of_sig_dict[pixel] = matching_p
DictSet(d, key, value) ==
    LET hit   == { j \in 1 .. Len(d) : KeyEq(d[j].key, key) }
        entry == [key |-> key, kind |-> value.kind, x |-> value.x, y |-> value.y]
    IN  IF hit = {} THEN Append(d, entry)
        ELSE [d EXCEPT ![CHOOSE j \in hit : TRUE] = entry]

-----------------------------------------------------------------------------
(* Least-squares affine fit.  numpy's lstsq returns the least-squares       *)
(* solution of minimum Euclidean norm; it is computed here exactly, every   *)
(* parameter a fraction num/den of integers.                                *)

Abs(a) == IF a < 0 THEN -a ELSE a

RECURSIVE Gcd(_, _)
Gcd(a, b) == IF b = 0 THEN Abs(a) ELSE Gcd(b, a % Abs(b))

Dot3(u, v) == u[1] * v[1] + u[2] * v[2] + u[3] * v[3]

Det3(G) ==
      G[1][1] * (G[2][2] * G[3][3] - G[2][3] * G[3][2])
    - G[1][2] * (G[2][1] * G[3][3] - G[2][3] * G[3][1])
    + G[1][3] * (G[2][1] * G[3][2] - G[2][2] * G[3][1])

\* the adjugate of a symmetric 3 x 3 matrix (its cofactor matrix)
Adj3(G) ==
    LET Minor(i, j) ==
            LET r == IF i = 1 THEN <<2, 3>> ELSE IF i = 2 THEN <<1, 3>> ELSE <<1, 2>>
                c == IF j = 1 THEN <<2, 3>> ELSE IF j = 2 THEN <<1, 3>> ELSE <<1, 2>>
            IN  G[r[1]][c[1]] * G[r[2]][c[2]] - G[r[1]][c[2]] * G[r[2]][c[1]]
    IN  [i \in 1 .. 3 |-> [j \in 1 .. 3 |->
            (IF (i + j) % 2 = 0 THEN 1 ELSE -1) * Minor(i, j)]]

Primitive(v) ==
    LET g == Gcd(Gcd(v[1], v[2]), v[3])
    IN  IF g = 0 THEN v ELSE [i \in 1 .. 3 |-> v[i] \div g]

Zero3 == <<0, 0, 0>>

\* integer vectors spanning the null space of the Gram matrix G (3 x 3,
\* symmetric, positive semi-definite)
NullBasis(G) ==
    LET adj == Adj3(G)
    IN  IF Det3(G) # 0 THEN {}
        ELSE IF \E i \in 1 .. 3 : adj[i] # Zero3
        THEN \* rank 2: the columns of the adjugate are multiples of the null vector
             { Primitive(adj[CHOOSE i \in 1 .. 3 : adj[i] # Zero3]) }
        ELSE IF \E i \in 1 .. 3 : G[i] # Zero3
        THEN \* rank 1: G = c * w w^T, the null space is the plane normal to w
             LET w == Primitive(G[CHOOSE i \in 1 .. 3 : G[i] # Zero3])
                 q == CHOOSE q \in 1 .. 3 : w[q] # 0
             IN  { [i \in 1 .. 3 |-> IF i = t THEN w[q] ELSE IF i = q THEN -w[t] ELSE 0] :
                     t \in (1 .. 3) \ {q} }
        ELSE \* rank 0
             { <<1, 0, 0>>, <<0, 1, 0>>, <<0, 0, 1>> }

RECURSIVE SumOuter(_, _, _)
SumOuter(vs, i, j) ==
    IF vs = {} THEN 0
    ELSE LET v == CHOOSE v \in vs : TRUE
         IN  v[i] * v[j] + SumOuter(vs \ {v}, i, j)

\* the inner product of the column `col` of c_matrix with the vector w
\* (one entry per row), from row k on
RECURSIVE ColDot(_, _, _, _)
ColDot(c_matrix, col, w, k) ==
    IF k > Len(c_matrix) THEN 0
    ELSE c_matrix[k][col] * w[k] + ColDot(c_matrix, col, w, k + 1)

Column(c_matrix, col) == [k \in 1 .. Len(c_matrix) |-> c_matrix[k][col]]

\* the minimum-norm least-squares solution u of M u = t for the three
\* columns `cols` of c_matrix: u solves the normal equations M^T M u = M^T t
\* and is normal to the null space of M, hence (M^T M + K) u = M^T t with K
\* the sum of n n^T over a basis of the null space; by Cramer's rule
\* u = adj(M^T M + K) M^T t / det(M^T M + K)
BlockSolve(c_matrix, d_vector, cols) ==
    LET G  == [i \in 1 .. 3 |-> [j \in 1 .. 3 |->
                 ColDot(c_matrix, cols[i], Column(c_matrix, cols[j]), 1)]]
        g  == [i \in 1 .. 3 |-> ColDot(c_matrix, cols[i], d_vector, 1)]
        ns == NullBasis(G)
        GK == [i \in 1 .. 3 |-> [j \in 1 .. 3 |-> G[i][j] + SumOuter(ns, i, j)]]
        adj == Adj3(GK)
    IN  [rank |-> 3 - Cardinality(ns),
         den  |-> Det3(GK),
         num  |-> [i \in 1 .. 3 |-> Dot3(adj[i], g)]]

\* np.linalg.lstsq(c_matrix, d_vector, rcond=None)[0] for a c_matrix whose
\* columns 0, 1, 4 and 2, 3, 5 are never both non-zero in a row (the systems
\* for the two rows of A are independent); it never raises
lstsq(c_matrix, d_vector) ==
    LET u == BlockSolve(c_matrix, d_vector, <<1, 2, 5>>)
        v == BlockSolve(c_matrix, d_vector, <<3, 4, 6>>)
    IN  [rank |-> u.rank + v.rank,
         x |-> << [num |-> u.num[1], den |-> u.den], [num |-> u.num[2], den |-> u.den],
                  [num |-> v.num[1], den |-> v.den], [num |-> v.num[2], den |-> v.den],
                  [num |-> u.num[3], den |-> u.den], [num |-> v.num[3], den |-> v.den] >>]

MutCMatrix(refs, dict) ==
    [k \in 1 .. 2 * Len(dict) |->
        LET key == refs[dict[(k + 1) \div 2].key]
        IN  IF k % 2 = 1 THEN <<key.y, key.x, 0, 0, 1, 0>>
                         ELSE <<0, 0, key.y, key.x, 0, 1>>]

\* distortion.py 99-112: c_matrix and d_vector, two rows per entry of the
\* dictionary; refs[i] is the Pixel object i of the Reference
CMatrix(refs, dict) ==
    [k \in 1 .. 2 * Len(dict) |->
        LET key == refs[dict[(k + 1) \div 2].key]
        IN  IF k % 2 = 1 THEN <<key.x, key.y, 0, 0, 1, 0>>
                         ELSE <<0, 0, key.x, key.y, 0, 1>>]

MutDVector(refs, dict) ==
    [k \in 1 .. 2 * Len(dict) |->
        IF k % 2 = 1 THEN dict[(k + 1) \div 2].y ELSE dict[(k + 1) \div 2].x]

DVector(refs, dict) ==
    [k \in 1 .. 2 * Len(dict) |->
        IF k % 2 = 1 THEN dict[(k + 1) \div 2].x ELSE dict[(k + 1) \div 2].y]

MutGetDistortionParams(refs, dict) ==
    LET best_fit == lstsq(CMatrix(refs, dict), DVector(refs, dict))
    IN  [kind |-> "params", rank |-> best_fit.rank,
         lin_tran_mtx |-> << <<best_fit.x[1], best_fit.x[3]>>,
                             <<best_fit.x[2], best_fit.x[4]>> >>,
         translation_vec |-> <<best_fit.x[5], best_fit.x[6]>>]

\* distortion.py 91-116: Distortion._get_distortion_params
get_distortion_params(refs, dict) ==
    LET best_fit == lstsq(CMatrix(refs, dict), DVector(refs, dict))
    IN  [kind |-> "params", rank |-> best_fit.rank,
         lin_tran_mtx |-> << <<best_fit.x[1], best_fit.x[2]>>,
                             <<best_fit.x[3], best_fit.x[4]>> >>,
         translation_vec |-> <<best_fit.x[5], best_fit.x[6]>>]

-----------------------------------------------------------------------------
(* Pixel.transform.  The entries of A and b are fractions num/den; the      *)
(* entries of one row of A and of b share their denominator.                *)

\* int(): the fraction cut towards zero
MutRound(q) ==
    LET n == IF q.den < 0 THEN -q.num ELSE q.num
        d == Abs(q.den)
    IN  IF n >= 0 THEN n \div d ELSE -((-n) \div d)

\* pixel.py 101: round() of a float: the nearest integer, and of the two
\* nearest the even one
round(q) ==
    LET n == IF q.den < 0 THEN -q.num ELSE q.num
        d == Abs(q.den)
        f == IF n >= 0 THEN n \div d ELSE -(((-n) + d - 1) \div d)
        r == n - f * d
    IN  IF 2 * r < d THEN f
        ELSE IF 2 * r > d THEN f + 1
        ELSE IF f % 2 = 0 THEN f ELSE f + 1

\* lin_tran_mtx @ loc_vec, the translation left out
MutLocVecAfter(self, lin_tran_mtx, translation_vec, row) ==
    [num |-> lin_tran_mtx[row][1].num * self.x + lin_tran_mtx[row][2].num * self.y,
     den |-> translation_vec[row].den]

\* pixel.py 99-100: row `row` of lin_tran_mtx @ loc_vec + translation_vec
loc_vec_after(self, lin_tran_mtx, translation_vec, row) ==
    [num |-> lin_tran_mtx[row][1].num * self.x + lin_tran_mtx[row][2].num * self.y
                + translation_vec[row].num,
     den |-> translation_vec[row].den]

\* pixel.py 78-101: Pixel.transform; Pixel() takes what it is given
transform(self, lin_tran_mtx, translation_vec) ==
    [kind |-> "Pixel",
     x |-> round(loc_vec_after(self, lin_tran_mtx, translation_vec, 1)),
     y |-> round(loc_vec_after(self, lin_tran_mtx, translation_vec, 2))]

-----------------------------------------------------------------------------
(* Inputs: the reference image, the landmark sheet, the target image.       *)

Pattern(dark, darkLevel, lightLevel) ==
    [i \in 0 .. Height - 1 |-> [j \in 0 .. Width - 1 |->
        IF <<i, j>> \in dark THEN darkLevel ELSE lightLevel]]

\* the landmark of the single-landmark inputs: every window in bounds
Centre == Pixel(FilterRadius + 1, FilterRadius)

MarkOffsets == { <<0, 0>>, <<0, 1>>, <<-1, -1>> }

NoiseSets == { {}, { <<0, 0>> }, { <<1, 1>> } }

Levels == { <<0, 255>>, <<199, 200>> }

Shifted(offsets, p, dy, dx) == { <<p.y + o[1] + dy, p.x + o[2] + dx>> : o \in offsets }

\* displacements <<dy, dx>> of the target: none, and to the ends of the
\* search range
Displacements ==
    { <<0, 0>>, <<-default_search_radius, -default_search_radius>>,
      <<default_search_radius, default_search_radius>>,
      <<-default_search_radius, default_search_radius>>,
      <<0, default_search_radius>>, <<default_search_radius, 0>> }

\* a mark printed around the landmark, photographed displaced by <<dy, dx>>
\* with at most one cell flipped
InitMatch ==
    \E mark \in SUBSET MarkOffsets, noise \in NoiseSets, lv \in Levels,
       d \in Displacements :
        LET printed == Shifted(mark, Centre, d[1], d[2])
            flipped == Shifted(noise, Centre, 0, 0)
            dark    == (printed \ flipped) \cup (flipped \ printed)
        IN  /\ sheet = << <<Centre.x, Centre.y>> >>
            /\ ref_image = Pattern(Shifted(mark, Centre, 0, 0), 0, 255)
            /\ image = Pattern(dark, lv[1], lv[2])

\* a grey ramp under the mask of the landmark, in the reference and in the
\* target: over the ramps g every grayscale value 0 .. 255 occurs
Ramp(g) ==
    [i \in 0 .. Height - 1 |-> [j \in 0 .. Width - 1 |->
        LET a == i - (Centre.y - default_mark_radius)
            b == j - (Centre.x - default_mark_radius)
        IN  IF a \in 0 .. MaskLen - 1 /\ b \in 0 .. MaskLen - 1
            THEN (g * MaskLen * MaskLen + a * MaskLen + b) % Uint8
            ELSE 255]]

InitGray ==
    \E g \in 0 .. (Uint8 \div (MaskLen * MaskLen)) :
        /\ sheet = << <<Centre.x, Centre.y>> >>
        /\ ref_image = Ramp(g)
        /\ image = ref_image

\* a bar under the landmark that reaches one column further to the right
\* than the mask, in the reference and in the target: the window one step
\* to the right of the landmark shows the mask too
InitBar ==
    /\ sheet = << <<Centre.x, Centre.y>> >>
    /\ ref_image = Pattern({ <<Centre.y + 1, j>> :
                                j \in (Centre.x - default_mark_radius)
                                        .. (Centre.x + default_mark_radius + 1) }, 0, 255)
    /\ image = ref_image

\* landmark coordinates <<x, y>> of the sheets: in bounds, and one step out
\* of bounds on the low and on the high side
SheetPoints ==
    << <<FilterRadius, FilterRadius>>, <<FilterRadius + 1, FilterRadius>>,
       <<FilterRadius + 2, FilterRadius>>, <<FilterRadius, FilterRadius + 1>>,
       <<FilterRadius - 1, FilterRadius>>, <<FilterRadius, FilterRadius + 2>> >>

\* the sheets: 1 to MaxLandmarks rows (a coordinate may repeat), listed in
\* the order of SheetPoints
Sheets ==
    LET picks == UNION { [1 .. n -> 1 .. Len(SheetPoints)] : n \in 1 .. MaxLandmarks }
        up    == { p \in picks : \A k \in 1 .. Len(p) - 1 : p[k] <= p[k + 1] }
    IN  { [k \in 1 .. Len(p) |-> SheetPoints[p[k]]] : p \in up }

\* the target is the reference itself: blank, or a dot on every landmark
InitSheet ==
    \E s \in Sheets, dots \in BOOLEAN :
        /\ sheet = s
        /\ ref_image = Pattern(IF dots THEN { <<s[k][2], s[k][1]>> : k \in 1 .. Len(s) }
                                       ELSE {}, 0, 255)
        /\ image = ref_image

\* the rows of ref_box.xlsx: x and y of the centre of the box of option 1,
\* of option 2, ... of a question, one row per question; the boxes stand in
\* the top left corner of the sheet, FilterRadius apart
BoxSheet ==
    [q \in 1 .. default_question_num |->
        [c \in 1 .. 2 * default_option_num |->
            IF c % 2 = 1 THEN ((c - 1) \div 2) * FilterRadius
                         ELSE (q - 1) * FilterRadius]]

\* no main() runs and no Questionnaire is under construction
NoApp ==
    /\ source_path = <<>>
    /\ q_path_list = <<>>
    /\ target_path = None
    /\ futures = <<>>
    /\ q_list = <<>>
    /\ written = <<>>
    /\ questions = <<>>
    /\ bc = None
    /\ option_iter = 0

Init ==
    /\ NoApp
    /\ InitMatch \/ InitGray \/ InitBar \/ InitSheet
    /\ pixel_mask_dict = <<>>
    /\ box_middle_pixel_array = <<>>
    /\ filtered_image_data = None
    /\ p_of_sig_iter = 0
    /\ ref_and_matching_p_of_sig_dict = <<>>
    /\ params = None
    /\ transformed = None
    /\ pc = "Reference"
    /\ raised = None

-----------------------------------------------------------------------------
(* Reference() and Distortion().                                            *)

\* the landmarks as Reference.iter_ref_p_of_sig yields them
RefPoints == [k \in 1 .. Len(sheet) |-> Pixel(sheet[k][1], sheet[k][2])]

\* ref.py 241-245: _ReferenceBoxLoader.__init__
ReferenceBoxLoader ==
    [q \in 1 .. Len(BoxSheet) |->
        [i \in 1 .. default_option_num |->
            Pixel(BoxSheet[q][2 * (i - 1) + 1], BoxSheet[q][2 * (i - 1) + 2])]]

\* ref.py 246-260
get_box_center_pixel(question_num, option_num) ==
    box_middle_pixel_array[question_num][option_num]

\* ref.py 64-67: Reference.__init__, its two loaders (ref.py 145-156, 241-245)
ReferenceInit ==
    /\ UNCHANGED appVars
    /\ pc = "Reference"
    /\ pixel_mask_dict' =
          [k \in 1 .. Len(sheet) |->
              mark_filter_out_edge(
                  crop_around_middle_point(ref_image, RefPoints[k], default_mark_radius))]
    /\ box_middle_pixel_array' = ReferenceBoxLoader
    /\ pc' = "filter"
    /\ UNCHANGED <<ref_image, sheet, image, filtered_image_data, p_of_sig_iter,
                   ref_and_matching_p_of_sig_dict, params, transformed, raised>>

\* distortion.py 44-49
FilterOutEdge ==
    /\ UNCHANGED appVars
    /\ pc = "filter"
    /\ LET r == data_filter_out_edge(image, RefPoints,
                                     default_data_edge_filtering_threshold,
                                     default_search_radius + default_mark_radius)
       IN  IF r.kind = "IndexError"
           THEN /\ raised' = r
                /\ pc' = "raised"
                /\ UNCHANGED filtered_image_data
           ELSE /\ filtered_image_data' = r.data
                /\ pc' = "match"
                /\ UNCHANGED raised
    /\ UNCHANGED <<ref_image, sheet, pixel_mask_dict, box_middle_pixel_array, image,
                   p_of_sig_iter,
                   ref_and_matching_p_of_sig_dict, params, transformed>>

\* the turn of the loop with the difference array_1 - array_2 of the match
\* left in array_2, the mask of the Reference
MutMatchInPlace ==
    /\ UNCHANGED appVars
    /\ pc = "match"
    /\ p_of_sig_iter < Len(sheet)
    /\ LET pixel == p_of_sig_iter + 1
           mask  == pixel_mask_dict[pixel]
           m     == find_matching_point_of_sig(filtered_image_data, RefPoints[pixel], mask)
           sub   == get_sub_array_around_middle_point(filtered_image_data, m.y, m.x,
                                                      default_mark_radius)
       IN  IF m.kind = "ValueError"
           THEN /\ raised' = m
                /\ pc' = "raised"
                /\ UNCHANGED <<p_of_sig_iter, ref_and_matching_p_of_sig_dict,
                               pixel_mask_dict>>
           ELSE /\ ref_and_matching_p_of_sig_dict' =
                      DictSet(ref_and_matching_p_of_sig_dict, pixel, m)
                /\ p_of_sig_iter' = pixel
                /\ pixel_mask_dict' =
                      [pixel_mask_dict EXCEPT ![pixel] =
                          [i \in 0 .. MaskLen - 1 |-> [j \in 0 .. MaskLen - 1 |->
                              DifAt(filtered_image_data, sub, mask, i, j)]]]
                /\ UNCHANGED <<pc, raised>>
    /\ UNCHANGED <<ref_image, sheet, box_middle_pixel_array, image, filtered_image_data,
                   params, transformed>>

\* distortion.py 54-56: one turn of the loop over the landmarks
FindMatchingPoint ==
    /\ UNCHANGED appVars
    /\ pc = "match"
    /\ p_of_sig_iter < Len(sheet)
    /\ LET pixel == p_of_sig_iter + 1
           m == find_matching_point_of_sig(filtered_image_data, RefPoints[pixel],
                                           pixel_mask_dict[pixel])
       IN  IF m.kind = "ValueError"
           THEN /\ raised' = m
                /\ pc' = "raised"
                /\ UNCHANGED <<p_of_sig_iter, ref_and_matching_p_of_sig_dict>>
           ELSE /\ ref_and_matching_p_of_sig_dict' =
                      DictSet(ref_and_matching_p_of_sig_dict, pixel, m)
                /\ p_of_sig_iter' = pixel
                /\ UNCHANGED <<pc, raised>>
    /\ UNCHANGED <<ref_image, sheet, pixel_mask_dict, box_middle_pixel_array, image,
                   filtered_image_data,
                   params, transformed>>

MutFitInsideLoop ==
    /\ UNCHANGED appVars
    /\ pc = "match"
    /\ p_of_sig_iter >= 1
    /\ params' = get_distortion_params(RefPoints, ref_and_matching_p_of_sig_dict)
    /\ pc' = "constructed"
    /\ UNCHANGED <<ref_image, sheet, pixel_mask_dict, box_middle_pixel_array, image,
                   filtered_image_data,
                   p_of_sig_iter, ref_and_matching_p_of_sig_dict, transformed, raised>>

\* distortion.py 57-58: the fit, after the loop; Distortion() returns
GetDistortionParams ==
    /\ UNCHANGED appVars
    /\ pc = "match"
    /\ p_of_sig_iter = Len(sheet)
    /\ params' = get_distortion_params(RefPoints, ref_and_matching_p_of_sig_dict)
    /\ pc' = "constructed"
    /\ UNCHANGED <<ref_image, sheet, pixel_mask_dict, box_middle_pixel_array, image,
                   filtered_image_data,
                   p_of_sig_iter, ref_and_matching_p_of_sig_dict, transformed, raised>>

\* a transform that moves the receiving pixel to where it maps it
MutTransformInPlace ==
    /\ UNCHANGED appVars
    /\ pc = "constructed"
    /\ \E question_num \in 1 .. default_question_num,
          option_num \in 1 .. default_option_num :
          LET moved == transform(get_box_center_pixel(question_num, option_num),
                                 params.lin_tran_mtx, params.translation_vec)
          IN  /\ transformed' = [self |-> Pixel(moved.x, moved.y), result |-> moved]
              /\ box_middle_pixel_array' =
                    [box_middle_pixel_array EXCEPT
                        ![question_num][option_num] = Pixel(moved.x, moved.y)]
    /\ UNCHANGED <<ref_image, sheet, pixel_mask_dict, image,
                   filtered_image_data, p_of_sig_iter, ref_and_matching_p_of_sig_dict,
                   params, pc, raised>>

\* questionnaire.py 162-164: Questionnaire._get_box_loc_pixel
GetBoxLocPixel ==
    /\ UNCHANGED appVars
    /\ pc = "constructed"
    /\ \E question_num \in 1 .. default_question_num,
          option_num \in 1 .. default_option_num :
          transformed' = [self |-> get_box_center_pixel(question_num, option_num),
                          result |-> transform(get_box_center_pixel(question_num, option_num),
                                               params.lin_tran_mtx, params.translation_vec)]
    /\ UNCHANGED <<ref_image, sheet, pixel_mask_dict, box_middle_pixel_array, image,
                   filtered_image_data, p_of_sig_iter, ref_and_matching_p_of_sig_dict,
                   params, pc, raised>>

\* distortion.py 60-68: list(self._ref_and_matching_p_of_sig_dict.values())
get_matching_point_list ==
    [j \in 1 .. Len(ref_and_matching_p_of_sig_dict) |->
        [kind |-> ref_and_matching_p_of_sig_dict[j].kind,
         x |-> ref_and_matching_p_of_sig_dict[j].x,
         y |-> ref_and_matching_p_of_sig_dict[j].y]]

\* pixel.py 52-76: the setters of x and y: ValueError below zero
set_x(pixel, value) == IF value < 0 THEN pixel ELSE [pixel EXCEPT !.x = value]

set_y(pixel, value) == IF value < 0 THEN pixel ELSE [pixel EXCEPT !.y = value]

\* distortion.py 60-68: get_matching_point_list returns a new list of the
\* Pixel objects that are the values of the dictionary; a caller that sets
\* x or y of an element of the list sets it in the object the dictionary holds
CallerSetsPixel ==
    /\ UNCHANGED appVars
    /\ pc = "constructed"
    /\ \E k \in 1 .. Len(ref_and_matching_p_of_sig_dict), value \in {-1, 0} :
          ref_and_matching_p_of_sig_dict' =
              [ref_and_matching_p_of_sig_dict EXCEPT
                  ![k] = set_y(set_x(ref_and_matching_p_of_sig_dict[k], value), value)]
    /\ pc' = "used"
    /\ UNCHANGED <<ref_image, sheet, pixel_mask_dict, box_middle_pixel_array, image,
                   filtered_image_data, p_of_sig_iter, params, transformed, raised>>

\* distortion.py 70-88: get_lin_tran_mtx and get_translation_vec return the
\* arrays of the Distortion themselves; a caller that assigns to an item of
\* the array it got (here: 0) assigns to the array of the Distortion
CallerWritesArray ==
    /\ UNCHANGED appVars
    /\ pc = "constructed"
    /\ \/ params' = [params EXCEPT !.lin_tran_mtx[1][1].num = 0]
       \/ params' = [params EXCEPT !.translation_vec[1].num = 0]
    /\ pc' = "used"
    /\ UNCHANGED <<ref_image, sheet, pixel_mask_dict, box_middle_pixel_array, image,
                   filtered_image_data, p_of_sig_iter, ref_and_matching_p_of_sig_dict,
                   transformed, raised>>

Next ==
    \/ ReferenceInit \/ FilterOutEdge \/ FindMatchingPoint \/ GetDistortionParams
    \/ GetBoxLocPixel \/ CallerSetsPixel \/ CallerWritesArray

Spec == Init /\ [][Next]_vars

-----------------------------------------------------------------------------
(* The fitter and Pixel.transform on their own: _get_distortion_params on a *)
(* dictionary of matched pairs, then Pixel.transform with the fitted A, b.  *)

\* the matcher returns a pixel at most the search radius away from the
\* landmark, in x and in y; the pairs below are displaced by MaxShift at most
MaxShift == 2

\* landmark coordinates <<x, y>>: a grid of three columns and two rows
FitGrid ==
    << <<MaxShift, MaxShift>>, <<MaxShift + 1, MaxShift>>, <<MaxShift + 2, MaxShift>>,
       <<MaxShift, MaxShift + 1>>, <<MaxShift + 1, MaxShift + 1>>,
       <<MaxShift + 2, MaxShift + 1>> >>

\* the sheets: 1 to MaxLandmarks different points of the grid
FitSheets ==
    LET picks == UNION { [1 .. n -> 1 .. Len(FitGrid)] : n \in 1 .. MaxLandmarks }
        up    == { p \in picks : \A k \in 1 .. Len(p) - 1 : p[k] < p[k + 1] }
    IN  { [k \in 1 .. Len(p) |-> FitGrid[p[k]]] : p \in up }

\* affine maps with integer entries: A row by row, then b
FitMaps ==
    { << <<1, 0>>, <<0, 1>>, <<0, 0>> >>,       \* identity
      << <<1, 0>>, <<0, 1>>, <<1, 2>> >>,       \* translation
      << <<0, -1>>, <<1, 0>>, <<7, 0>> >>,      \* quarter turn
      << <<2, 0>>, <<0, 1>>, <<0, 1>> >>,       \* stretch in x
      << <<1, 1>>, <<0, 1>>, <<0, 0>> >>,       \* shear
      << <<1, 0>>, <<0, 0>>, <<0, 3>> >> }      \* collapse onto a line

FitShifts == { <<0, 0>>, <<MaxShift, 0>>, <<-MaxShift, 0>>, <<0, MaxShift>> }

ApplyMap(m, xy) ==
    [kind |-> "Pixel",
     x |-> m[1][1] * xy[1] + m[1][2] * xy[2] + m[3][1],
     y |-> m[2][1] * xy[1] + m[2][2] * xy[2] + m[3][2]]

\* the state of Distortion.__init__ at the end of its loop, for a
\* dictionary of pairs that an affine map relates exactly, or of pairs
\* displaced one by one
FitInit ==
    /\ NoApp
    /\ \E s \in FitSheets :
          /\ sheet = s
          /\ \/ \E m \in FitMaps :
                   ref_and_matching_p_of_sig_dict =
                       [k \in 1 .. Len(s) |->
                           [key |-> k] @@ ApplyMap(m, s[k])]
             \/ \E sh \in [1 .. Len(s) -> FitShifts] :
                   ref_and_matching_p_of_sig_dict =
                       [k \in 1 .. Len(s) |->
                           [key |-> k, kind |-> "Pixel",
                            x |-> s[k][1] + sh[k][1], y |-> s[k][2] + sh[k][2]]]
          /\ p_of_sig_iter = Len(s)
    /\ ref_image = None
    /\ image = None
    /\ pixel_mask_dict = <<>>
    /\ box_middle_pixel_array = <<>>
    /\ filtered_image_data = None
    /\ params = None
    /\ transformed = None
    /\ pc = "match"
    /\ raised = None

\* pixel.py 78-101 with the A and b of the Distortion, as in
\* questionnaire.py 163-164, on the reference pixel of a landmark
TransformLandmark ==
    /\ UNCHANGED appVars
    /\ pc = "constructed"
    /\ \E k \in 1 .. Len(sheet) :
          transformed' = [self |-> RefPoints[k],
                          result |-> transform(RefPoints[k], params.lin_tran_mtx,
                                               params.translation_vec)]
    /\ UNCHANGED <<ref_image, sheet, pixel_mask_dict, box_middle_pixel_array, image,
                   filtered_image_data,
                   p_of_sig_iter, ref_and_matching_p_of_sig_dict, params, pc, raised>>

FitNext == GetDistortionParams \/ TransformLandmark

FitSpec == FitInit /\ [][FitNext]_vars

-----------------------------------------------------------------------------
(* Vocabulary of the properties.                                            *)

\* the candidate centres <<y, x>> of landmark k
Candidates(k) ==
    { <<y, x>> :
        y \in (RefPoints[k].y - default_search_radius) .. (RefPoints[k].y + default_search_radius),
        x \in (RefPoints[k].x - default_search_radius) .. (RefPoints[k].x + default_search_radius) }

WindowInBounds(yx) ==
    /\ yx[1] - default_mark_radius >= 0
    /\ yx[1] + default_mark_radius <= Height - 1
    /\ yx[2] - default_mark_radius >= 0
    /\ yx[2] + default_mark_radius <= Width - 1

AllWindowsInBounds(k) == \A c \in Candidates(k) : WindowInBounds(c)

\* c comes before d in the scan: rows first, then columns
Earlier(c, d) == c[1] < d[1] \/ (c[1] = d[1] /\ c[2] < d[2])

\* the landmark matched by the latest turn of the loop, and its match
Latest == Len(ref_and_matching_p_of_sig_dict)

LatestMatch ==
    <<ref_and_matching_p_of_sig_dict[Latest].y, ref_and_matching_p_of_sig_dict[Latest].x>>

JustMatched == pc = "match" /\ Latest >= 1

JustFiltered == pc = "match" /\ Latest = 0

ScoreOf(k, yx) == Score(filtered_image_data, yx, pixel_mask_dict[k]).sq

\* the cells of an in-bounds window of the filtered target that differ from
\* the mask of landmark k
Mismatches(k, yx) ==
    { <<a, b>> \in (0 .. MaskLen - 1) \X (0 .. MaskLen - 1) :
        filtered_image_data[yx[1] - default_mark_radius + a][yx[2] - default_mark_radius + b]
            # pixel_mask_dict[k][a][b] }

\* the grayscale value of the reference under cell <<a, b>> of the mask of k
MaskSource(k, a, b) ==
    LET i == RefPoints[k].y - default_mark_radius + a
        j == RefPoints[k].x - default_mark_radius + b
    IN  IF i \in 0 .. Height - 1 /\ j \in 0 .. Width - 1 THEN ref_image[i][j] ELSE 0

\* the cells of the target that _filter_out_edge has processed
Processed(i, j) ==
    \E k \in 1 .. Len(sheet) :
        /\ (i - RefPoints[k].y + FilterRadius) % Height <= 2 * FilterRadius
        /\ (j - RefPoints[k].x + FilterRadius) % Width <= 2 * FilterRadius

\* <<grayscale value, sentinel>> of every mask cell / processed target cell
MaskPairs ==
    { <<MaskSource(k, c[1], c[2]), pixel_mask_dict[k][c[1]][c[2]]>> :
        k \in 1 .. Len(sheet), c \in (0 .. MaskLen - 1) \X (0 .. MaskLen - 1) }

DataPairs ==
    { <<image[c[1]][c[2]], filtered_image_data[c[1]][c[2]]>> :
        c \in { c \in Cells : Processed(c[1], c[2]) } }

\* the reference landmarks lie on one line (or coincide)
Collinear(refs) ==
    \A i, j, k \in 1 .. Len(refs) :
        (refs[j].x - refs[i].x) * (refs[k].y - refs[i].y)
            = (refs[k].x - refs[i].x) * (refs[j].y - refs[i].y)

IsValue(q, n) == q.den # 0 /\ q.num = n * q.den

IsIdentity(p) ==
    /\ IsValue(p.lin_tran_mtx[1][1], 1) /\ IsValue(p.lin_tran_mtx[1][2], 0)
    /\ IsValue(p.lin_tran_mtx[2][1], 0) /\ IsValue(p.lin_tran_mtx[2][2], 1)
    /\ IsValue(p.translation_vec[1], 0) /\ IsValue(p.translation_vec[2], 0)

-----------------------------------------------------------------------------
(* C1 .. C10                                                                *)

\* C1: with every candidate window in bounds, the matcher returns one of the
\* (2S+1) x (2S+1) candidate centres, its score is at most the score of every
\* candidate, and when exactly one candidate reproduces the mask (score 0)
\* that candidate is returned.
C1_MinimalScore ==
    (JustMatched /\ AllWindowsInBounds(Latest)) =>
        LET best == ScoreOf(Latest, LatestMatch)
        IN  /\ LatestMatch \in Candidates(Latest)
            /\ Cardinality(Candidates(Latest))
                 = (2 * default_search_radius + 1) * (2 * default_search_radius + 1)
            /\ \A c \in Candidates(Latest) : best <= ScoreOf(Latest, c)
            /\ \A c \in Candidates(Latest) :
                  (/\ Mismatches(Latest, c) = {}
                   /\ \A d \in Candidates(Latest) \ {c} : Mismatches(Latest, d) # {})
                  => LatestMatch = c

\* a displaced mark: one candidate other than the first and the nominal one
\* reproduces the mask, and it is the match
C1_Witness ==
    /\ JustMatched /\ AllWindowsInBounds(Latest)
    /\ Mismatches(Latest, LatestMatch) = {}
    /\ \A d \in Candidates(Latest) \ {LatestMatch} : Mismatches(Latest, d) # {}
    /\ LatestMatch[1] > RefPoints[Latest].y
    /\ LatestMatch[2] > RefPoints[Latest].x

\* C2: among the candidates of minimal score the matcher returns the first in
\* scan order (rows y ascending, then columns x ascending): every candidate
\* scanned before the match has a strictly greater score, none after it a
\* smaller one.
C2_FirstOfTies ==
    JustMatched =>
        LET best == ScoreOf(Latest, LatestMatch)
        IN  \A c \in Candidates(Latest) :
                /\ Earlier(c, LatestMatch) => ScoreOf(Latest, c) > best
                /\ Earlier(LatestMatch, c) => ScoreOf(Latest, c) >= best

\* two candidates tie at a non-zero minimum and the earlier one is the match
C2_Witness ==
    /\ JustMatched
    /\ ScoreOf(Latest, LatestMatch) > 0
    /\ \E c \in Candidates(Latest) :
          /\ Earlier(LatestMatch, c)
          /\ ScoreOf(Latest, c) = ScoreOf(Latest, LatestMatch)
    /\ \E c \in Candidates(Latest) : Earlier(c, LatestMatch)

\* C3: the score is the Frobenius norm of the true differences: under the
\* root, 255^2 for every cell of the window that differs from the mask,
\* whichever of the two is BLACK.
C3_TrueDifference ==
    (JustMatched /\ AllWindowsInBounds(Latest)) =>
        ScoreOf(Latest, LatestMatch)
            = 255 * 255 * Cardinality(Mismatches(Latest, LatestMatch))

\* C4: binarization maps a cell to BLACK when its grayscale value is below
\* the threshold and to WHITE otherwise (a value equal to it is WHITE), and
\* keeps the shape: every mask cell, and every processed cell of the target;
\* the cells of the target outside the processed region keep their value.
C4_Binarized ==
    /\ pc # "Reference" =>
          \A k \in 1 .. Len(sheet) :
              /\ DOMAIN pixel_mask_dict[k] = 0 .. MaskLen - 1
              /\ \A a \in 0 .. MaskLen - 1 :
                    /\ DOMAIN pixel_mask_dict[k][a] = 0 .. MaskLen - 1
                    /\ \A b \in 0 .. MaskLen - 1 :
                          pixel_mask_dict[k][a][b]
                              = IF MaskSource(k, a, b) < 200 THEN 0 ELSE 255
    /\ JustFiltered =>
          /\ DOMAIN filtered_image_data = DOMAIN image
          /\ \A i \in 0 .. Height - 1 :
                /\ DOMAIN filtered_image_data[i] = DOMAIN image[i]
                /\ \A j \in 0 .. Width - 1 :
                      filtered_image_data[i][j]
                          = IF Processed(i, j)
                            THEN (IF image[i][j] < 200 THEN 0 ELSE 255)
                            ELSE image[i][j]

\* values just below and at the threshold have been binarized, in a mask and
\* in the target, next to a cell the filter has left alone
C4_Witness ==
    /\ JustFiltered /\ Len(sheet) >= 1
    /\ \E i, i2, i3 \in 0 .. Height - 1, j, j2, j3 \in 0 .. Width - 1 :
          /\ Processed(i, j) /\ image[i][j] = 199 /\ filtered_image_data[i][j] = 0
          /\ Processed(i2, j2) /\ image[i2][j2] = 200 /\ filtered_image_data[i2][j2] = 255
          /\ ~ Processed(i3, j3)
    /\ \E a \in 0 .. MaskLen - 1, b \in 0 .. MaskLen - 1 :
          MaskSource(1, a, b) = 0 /\ pixel_mask_dict[1][a][b] = 0

\* C5: the binarization of the masks and the binarization of the target agree
\* on every grayscale value: a mask cell and a processed target cell with the
\* same grayscale value get the same sentinel.
C5_SameBinarization ==
    JustFiltered =>
        \A m \in MaskPairs, d \in DataPairs : m[1] = d[1] => m[2] = d[2]

\* the threshold value itself, under a mask and in the target
C5_Witness ==
    /\ JustFiltered
    /\ <<200, 255>> \in MaskPairs /\ <<200, 255>> \in DataPairs
    /\ <<199, 0>> \in MaskPairs /\ <<199, 0>> \in DataPairs

\* C6 as stated: when the target is the reference image itself, every matched
\* coordinate is the reference coordinate of its landmark, and the fitted
\* transform is the identity.
C6_IdentityCase ==
    image = ref_image =>
        /\ \A k \in 1 .. Latest :
              /\ ref_and_matching_p_of_sig_dict[k].x = RefPoints[k].x
              /\ ref_and_matching_p_of_sig_dict[k].y = RefPoints[k].y
        /\ pc = "constructed" => IsIdentity(params)

\* no candidate scanned before the reference coordinate of landmark k shows
\* the mask of k
NoEarlierCopy(k) ==
    \A c \in Candidates(k) :
        Earlier(c, <<RefPoints[k].y, RefPoints[k].x>>) => Mismatches(k, c) # {}

MatchedAtReference(k) ==
    /\ ref_and_matching_p_of_sig_dict[k].x = RefPoints[k].x
    /\ ref_and_matching_p_of_sig_dict[k].y = RefPoints[k].y

\* C6, amended: when the target is the reference image itself, the matched
\* coordinate of a landmark is its reference coordinate provided no candidate
\* scanned before the reference coordinate shows the same binarized window as
\* the mask; when every landmark is matched at its reference coordinate and
\* the landmarks are not collinear, the fitted transform is the identity.
C6_IdentityCaseAmended ==
    image = ref_image =>
        /\ (JustMatched /\ AllWindowsInBounds(Latest) /\ NoEarlierCopy(Latest))
              => MatchedAtReference(Latest)
        /\ (/\ pc = "constructed"
            /\ \A k \in 1 .. Latest : MatchedAtReference(k)
            /\ ~ Collinear(RefPoints))
              => IsIdentity(params)

\* three landmarks, each with a dot of its own, matched where they are and
\* fitted by the identity
C6_Witness ==
    /\ image = ref_image
    /\ pc = "constructed" /\ Latest >= 3
    /\ \A k \in 1 .. Latest : MatchedAtReference(k)
    /\ ~ Collinear(RefPoints)
    /\ IsIdentity(params)

\* C7: a landmark with a candidate window outside the target (on the low or
\* on the high side) gets no match: registration fails with the
\* out-of-bounds error (IndexError).
C7_OutOfBoundsError ==
    \A k \in 1 .. Len(sheet) :
        ~ AllWindowsInBounds(k) =>
            /\ k > Latest
            /\ pc # "constructed"
            /\ pc = "raised" => raised.kind = "IndexError"

\* C8: fewer than 3 pairs never yield a transform (the fit fails with
\* InsufficientLandmarks); exactly 3 non-collinear pairs do.
C8_InsufficientLandmarks ==
    /\ Len(sheet) < 3 => pc # "constructed"
    /\ (pc = "constructed" /\ Len(sheet) = 3 /\ ~ Collinear(RefPoints))
          => (params.kind = "params" /\ params.rank = 6)

\* C9: collinear (or coinciding) reference landmarks never yield a transform
\* (the fit fails with DegenerateFit): a transform returned comes from a
\* system of full rank.
C9_DegenerateFit ==
    pc = "constructed" =>
        /\ (Len(sheet) >= 3 => ~ Collinear(RefPoints))
        /\ (Len(sheet) >= 3 => params.rank = 6)

\* the residual of pair k in row `row` of the transform, times the common
\* denominator of that row
Residual(p, refs, dict, row, k) ==
      p.lin_tran_mtx[row][1].num * refs[k].x
    + p.lin_tran_mtx[row][2].num * refs[k].y
    + p.translation_vec[row].num
    - (IF row = 1 THEN dict[k].x ELSE dict[k].y) * p.translation_vec[row].den

\* sum over the pairs k .. of weight(k) * residual(k), the weight being the
\* coefficient of the parameter `col` (1: ref.x, 2: ref.y, 3: 1)
RECURSIVE WeightedResiduals(_, _, _, _, _, _)
WeightedResiduals(p, refs, dict, row, col, k) ==
    IF k > Len(dict) THEN 0
    ELSE (IF col = 1 THEN refs[k].x ELSE IF col = 2 THEN refs[k].y ELSE 1)
            * Residual(p, refs, dict, row, k)
         + WeightedResiduals(p, refs, dict, row, col, k + 1)

\* p is a least-squares fit of exactly the pairs (refs[k], dict[k])
LeastSquaresOf(p, refs, dict) ==
    /\ p.kind = "params"
    /\ \A row \in 1 .. 2 :
          /\ p.translation_vec[row].den # 0
          /\ p.lin_tran_mtx[row][1].den = p.translation_vec[row].den
          /\ p.lin_tran_mtx[row][2].den = p.translation_vec[row].den
          /\ \A col \in 1 .. 3 : WeightedResiduals(p, refs, dict, row, col, 1) = 0

\* C10: a Distortion the caller can see holds a matched pixel for every
\* landmark of the reference and a transform that is a least-squares fit of
\* exactly those pairs; when the filter or the matcher raised, and as long as
\* __init__ has not returned, there is no Distortion and no transform.
C10_ValidOrNotConstructed ==
    /\ pc = "constructed" =>
          /\ Latest = Len(sheet)
          /\ \A k \in 1 .. Latest : ref_and_matching_p_of_sig_dict[k].kind = "Pixel"
          /\ LeastSquaresOf(params, RefPoints, ref_and_matching_p_of_sig_dict)
          /\ raised = None
    /\ pc \in {"Reference", "filter", "match", "raised"} => params = None
    /\ pc = "raised" => raised.kind \in {"IndexError", "ValueError"}

\* a Distortion over three collinear landmarks, its transform not symmetric
C10_Witness ==
    /\ pc = "constructed" /\ Latest = 3
    /\ params.rank < 6
    /\ params.lin_tran_mtx[1][2].num # params.lin_tran_mtx[2][1].num

-----------------------------------------------------------------------------
(* C11 .. C20                                                               *)

\* the landmarks whose candidate windows all lie inside the target: the
\* landmarks the matcher can match
Matchable == { k \in 1 .. Len(sheet) : AllWindowsInBounds(k) }

\* C11: a landmark whose match fails is left out and the fit runs on the
\* others: the construction of a Distortion fails only when fewer than 3
\* landmarks can be matched or the landmarks that can be matched lie on one line.
C11_FailedLandmarkExcluded ==
    pc = "raised" =>
        \/ Cardinality(Matchable) < 3
        \/ \A i, j, k \in Matchable :
              (RefPoints[j].x - RefPoints[i].x) * (RefPoints[k].y - RefPoints[i].y)
                  = (RefPoints[k].x - RefPoints[i].x) * (RefPoints[j].y - RefPoints[i].y)

\* every landmark of the Reference has its entry in the dictionary
AllMatched ==
    /\ p_of_sig_iter = Len(sheet)
    /\ \A k \in 1 .. Len(sheet) :
          \E j \in 1 .. Len(ref_and_matching_p_of_sig_dict) :
              ref_and_matching_p_of_sig_dict[j].key = k

\* C12: the fit is a barrier after matching: the step that computes the
\* transform is taken only from the loop's end, when every landmark of the
\* Reference has its matched pixel, and it is taken once: a transform, once
\* computed, is not computed again and the matching is not resumed.
C12_FitIsBarrier ==
    [][ /\ (params = None /\ params' # None) =>
              (pc = "match" /\ AllMatched /\ pc' = "constructed"
               /\ ref_and_matching_p_of_sig_dict' = ref_and_matching_p_of_sig_dict)
        /\ params # None =>
              (params' # None /\ pc' \notin {"Reference", "filter", "match"}
               /\ p_of_sig_iter' = p_of_sig_iter) ]_vars

\* a Distortion of several landmarks, fitted after the last match
C12_Witness ==
    /\ pc = "constructed" /\ params # None
    /\ Len(sheet) >= 2 /\ AllMatched

\* the parameters (a11, a12, a21, a22, b1, b2) as read from A and b
Unknowns(p) ==
    << p.lin_tran_mtx[1][1], p.lin_tran_mtx[1][2], p.lin_tran_mtx[2][1],
       p.lin_tran_mtx[2][2], p.translation_vec[1], p.translation_vec[2] >>

\* what equation i of the system c u = d leaves over for the unknowns u,
\* times the denominator of the unknowns of its row of A (an odd equation
\* has its coefficients in the columns 1, 2, 5, an even one in 3, 4, 6)
EquationResidual(c, d, u, i) ==
    IF i % 2 = 1
    THEN c[i][1] * u[1].num + c[i][2] * u[2].num + c[i][5] * u[5].num - d[i] * u[5].den
    ELSE c[i][3] * u[3].num + c[i][4] * u[4].num + c[i][6] * u[6].num - d[i] * u[6].den

\* C13: for N pairs the system has 2N equations in (a11, a12, a21, a22, b1,
\* b2): for each pair one with the coefficients (ref.x, ref.y, 0, 0, 1, 0) and
\* the right-hand side target.x, and one with (0, 0, ref.x, ref.y, 0, 1) and
\* target.y; and A = [[p0, p1], [p2, p3]], b = [p4, p5] are read in the order
\* of these columns: the unknowns read back from A and b satisfy the normal
\* equations of this very system.
C13_SystemLayout ==
    pc = "constructed" =>
        LET dict == ref_and_matching_p_of_sig_dict
            N    == Len(dict)
            c    == CMatrix(RefPoints, dict)
            d    == DVector(RefPoints, dict)
            u    == Unknowns(params)
            left == [i \in 1 .. 2 * N |-> EquationResidual(c, d, u, i)]
        IN  /\ Len(c) = 2 * N /\ Len(d) = 2 * N
            /\ \A k \in 1 .. N :
                  LET ref == RefPoints[dict[k].key]
                  IN  /\ c[2 * k - 1] = <<ref.x, ref.y, 0, 0, 1, 0>>
                      /\ d[2 * k - 1] = dict[k].x
                      /\ c[2 * k] = <<0, 0, ref.x, ref.y, 0, 1>>
                      /\ d[2 * k] = dict[k].y
            /\ u[1].den = u[5].den /\ u[2].den = u[5].den /\ u[5].den # 0
            /\ u[3].den = u[6].den /\ u[4].den = u[6].den /\ u[6].den # 0
            /\ \A col \in 1 .. 6 : ColDot(c, col, left, 1) = 0

\* a system of six equations or more over landmarks off the diagonal
C13_Witness ==
    /\ pc = "constructed"
    /\ Len(CMatrix(RefPoints, ref_and_matching_p_of_sig_dict)) >= 6
    /\ ~ Collinear(RefPoints)
    /\ \E k \in 1 .. Len(sheet) : RefPoints[k].x # RefPoints[k].y

\* the affine map m relates every pair of the dictionary exactly
ExactMap(m) ==
    \A k \in 1 .. Len(ref_and_matching_p_of_sig_dict) :
        LET target == ApplyMap(m, sheet[ref_and_matching_p_of_sig_dict[k].key])
        IN  /\ ref_and_matching_p_of_sig_dict[k].x = target.x
            /\ ref_and_matching_p_of_sig_dict[k].y = target.y

\* the transform p is the affine map m
IsMap(p, m) ==
    /\ IsValue(p.lin_tran_mtx[1][1], m[1][1]) /\ IsValue(p.lin_tran_mtx[1][2], m[1][2])
    /\ IsValue(p.lin_tran_mtx[2][1], m[2][1]) /\ IsValue(p.lin_tran_mtx[2][2], m[2][2])
    /\ IsValue(p.translation_vec[1], m[3][1]) /\ IsValue(p.translation_vec[2], m[3][2])

Translations == { << <<1, 0>>, <<0, 1>>, sh >> : sh \in FitShifts }

QuarterTurn == << <<0, -1>>, <<1, 0>>, <<7, 0>> >>

\* C14: exact recovery: from 3 or more pairs whose reference points are not
\* on one line and whose targets are A* ref + b* exactly, the fit returns
\* A = A* and b = b*.
C14_ExactRecovery ==
    (pc = "constructed" /\ Len(sheet) >= 3 /\ ~ Collinear(RefPoints)) =>
        \A m \in FitMaps \cup Translations : ExactMap(m) => IsMap(params, m)

\* a quarter turn recovered from four pairs
C14_Witness ==
    /\ pc = "constructed" /\ Len(sheet) >= 4 /\ ~ Collinear(RefPoints)
    /\ QuarterTurn \in FitMaps
    /\ ExactMap(QuarterTurn) /\ IsMap(params, QuarterTurn)

\* A (x, y) + b for the pixel and the transform of the latest
\* Pixel.transform, row by row, as a fraction with a positive denominator
ExactImage(row) ==
    LET num == params.lin_tran_mtx[row][1].num * transformed.self.x
             + params.lin_tran_mtx[row][2].num * transformed.self.y
             + params.translation_vec[row].num
        den == params.translation_vec[row].den
    IN  [num |-> IF den < 0 THEN -num ELSE num, den |-> Abs(den)]

Returned(row) == IF row = 1 THEN transformed.result.x ELSE transformed.result.y

\* C15: Pixel.transform(A, b) returns integers nearest to the components of
\* A (x, y) + b: each component of the returned pixel is at most 1/2 away
\* from the exact value.
C15_NearestInteger ==
    transformed # None =>
        \A row \in 1 .. 2 :
            LET e == ExactImage(row)
            IN  2 * Abs(Returned(row) * e.den - e.num) <= e.den

\* an x that is no integer, rounded up, and a y half way between two
\* integers
C15_Witness ==
    /\ transformed # None
    /\ Returned(1) * ExactImage(1).den > ExactImage(1).num
    /\ 2 * Abs(Returned(2) * ExactImage(2).den - ExactImage(2).num) = ExactImage(2).den

\* the pixel the latest Pixel.transform returned is at most `within` away,
\* in x and in y, from the match of every landmark at the pixel it was given
RoundTripWithin(within) ==
    \A k \in 1 .. Len(ref_and_matching_p_of_sig_dict) :
        RefPoints[ref_and_matching_p_of_sig_dict[k].key] = transformed.self =>
            /\ Abs(transformed.result.x - ref_and_matching_p_of_sig_dict[k].x) <= within
            /\ Abs(transformed.result.y - ref_and_matching_p_of_sig_dict[k].y) <= within

\* C16 as stated: the fitted transform maps the reference coordinate of every
\* landmark of the fit to within 1 pixel, in x and in y, of the matched
\* coordinate of that landmark (taken for the fits of 3 or more landmarks
\* that are not on one line, the fits C8 and C9 admit).
C16_RoundTrip ==
    (transformed # None /\ Len(sheet) >= 3 /\ ~ Collinear(RefPoints)) => RoundTripWithin(1)

\* C16, amended: when one affine map relates every matched pair of the fit
\* exactly (as it always does for exactly 3 landmarks that are not on one
\* line), the fitted transform maps the reference coordinate of every
\* landmark of the fit to within 1 pixel, in x and in y, of the matched
\* coordinate of that landmark.
C16_RoundTripAmended ==
    (/\ transformed # None
     /\ \/ Len(sheet) = 3 /\ ~ Collinear(RefPoints)
        \/ \E m \in FitMaps \cup Translations : ExactMap(m))
        => RoundTripWithin(1)

\* three landmarks not on one line, one of them displaced alone: the
\* transform is no translation and the displaced landmark is mapped onto its
\* match
C16_Witness ==
    /\ transformed # None
    /\ Len(sheet) = 3 /\ ~ Collinear(RefPoints)
    /\ \A m \in FitMaps \cup Translations : ~ ExactMap(m)
    /\ \E k \in 1 .. 3 :
          /\ RefPoints[k] = transformed.self
          /\ ref_and_matching_p_of_sig_dict[k].x # RefPoints[k].x
          /\ transformed.result.x = ref_and_matching_p_of_sig_dict[k].x
          /\ transformed.result.y = ref_and_matching_p_of_sig_dict[k].y

NonNegative(pixel) == pixel.x >= 0 /\ pixel.y >= 0

\* C17: every Pixel that exists has x >= 0 and y >= 0: the landmarks and the
\* box centres of the Reference, the matched pixels of the Distortion, and
\* the pixels Pixel.transform returns.
C17_NonNegativePixels ==
    /\ \A k \in 1 .. Len(sheet) : NonNegative(RefPoints[k])
    /\ \A q \in 1 .. Len(box_middle_pixel_array) :
          \A o \in 1 .. Len(box_middle_pixel_array[q]) :
              NonNegative(box_middle_pixel_array[q][o])
    /\ \A k \in 1 .. Len(ref_and_matching_p_of_sig_dict) :
          NonNegative(ref_and_matching_p_of_sig_dict[k])
    /\ transformed # None => NonNegative(transformed.result)

\* C18: a Distortion is never changed after its construction: whatever is
\* called on it, and whatever the caller does with the values the calls
\* return, its transform and its matched pixels stay what they were.
C18_NeverMutated ==
    [][ (pc \in {"constructed", "used"}) =>
            (params' = params
             /\ ref_and_matching_p_of_sig_dict' = ref_and_matching_p_of_sig_dict) ]_vars

C20_OnePerLandmark ==
    pc = "constructed" =>
        /\ Len(get_matching_point_list) = Len(sheet)
        /\ \A i \in 1 .. Len(sheet) :
              get_matching_point_list[i].kind = "Pixel"
        /\ transformed = None => \A i \in 1 .. Len(sheet) :
              /\ i <= Len(get_matching_point_list)
              /\ get_matching_point_list[i] =
                    find_matching_point_of_sig(filtered_image_data, RefPoints[i],
                                               pixel_mask_dict[i])

\* two landmarks with one coordinate next to a third with another match
C20_Witness ==
    /\ pc = "constructed" /\ Len(get_matching_point_list) >= 3
    /\ \E i, j \in 1 .. Len(sheet) : i < j /\ sheet[i] = sheet[j]
    /\ \E i, j \in 1 .. Len(sheet) : get_matching_point_list[i] # get_matching_point_list[j]

-----------------------------------------------------------------------------
(* C21 .. C30                                                               *)

\* the Pixel objects a caller of Reference.get_mask can hand in: the objects
\* the Reference made (id: the row of the sheet) and the objects the caller
\* makes itself from two coordinates (id 0, the object of no row)
CallerPixels ==
    { [id |-> k, x |-> RefPoints[k].x, y |-> RefPoints[k].y] : k \in 1 .. Len(sheet) }
    \cup { [id |-> 0, x |-> c[2], y |-> c[1]] : c \in Cells }

\* ref.py 79-99, 168-181: self._pixel_mask_dict[ref_p_of_sig], KeyError when
\* no key of the dictionary is the object handed in
get_mask(ref_p_of_sig) ==
    LET hit == { k \in 1 .. Len(pixel_mask_dict) : KeyEq(k, ref_p_of_sig.id) }
    IN  IF hit = {} THEN [kind |-> "KeyError"]
        ELSE [kind |-> "ndarray", data |-> pixel_mask_dict[CHOOSE k \in hit : TRUE]]

\* C21: Reference.get_mask(p) returns the mask of a landmark for every Pixel
\* p whose (x, y) is the coordinate of that landmark, whether or not p is
\* the object iter_ref_p_of_sig yields, and raises for every Pixel whose
\* coordinate is the coordinate of no landmark.
C21_MaskByCoordinate ==
    pc # "Reference" =>
        \A p \in CallerPixels :
            LET same == { k \in 1 .. Len(sheet) : RefPoints[k] = Pixel(p.x, p.y) }
            IN  IF same = {} THEN get_mask(p).kind = "KeyError"
                ELSE /\ get_mask(p).kind = "ndarray"
                     /\ \E k \in same : get_mask(p).data = pixel_mask_dict[k]

-----------------------------------------------------------------------------
(* main(): the batch run.  A file of the source directory is named by its   *)
(* place in what iterdir() yields and carries its suffix.                   *)

\* __main__.py 11
accepted_image_format_extensions == <<".jpg", ".jpeg", ".png">>

\* the suffixes of the files of a source directory
Suffixes == { ".jpg", ".jpeg", ".png", ".JPG", ".txt" }

\* the files of a source directory are MaxFiles at most
MaxFiles == 3

Path(name, suffix) == [name |-> name, suffix |-> suffix]

\* __main__.py 24: path.suffix in accepted_image_format_extensions
Accepted(path) ==
    \E e \in 1 .. Len(accepted_image_format_extensions) :
        accepted_image_format_extensions[e] = path.suffix

\* __main__.py 24: the list comprehension over source_path.iterdir()
ListPaths(dir) ==
    LET kept == { k \in 1 .. Len(dir) : Accepted(Path(k, dir[k])) }
    IN  [i \in 1 .. Cardinality(kept) |->
            LET k == CHOOSE k \in kept : Cardinality({ j \in kept : j < k }) = i - 1
            IN  Path(k, dir[k])]

\* questionnaire.py 39: a call of Questionnaire binds its arguments to
\* image_path, ref and bc; with fewer or more than three it raises
\* TypeError before __init__ runs.  What __init__ does with three is
\* NewQuestionnaire .. LabelImage below.
QuestionnaireCall(args) ==
    IF Len(args) # 3 THEN [kind |-> "TypeError", args |-> args]
    ELSE [kind |-> "Questionnaire", args |-> args, path |-> args[1]]

\* task.py 15-17: return Questionnaire(path)
generate_questionnaire(path) == QuestionnaireCall(<<path>>)

\* main() starts on a source directory
MainInit ==
    /\ \E n \in 0 .. MaxFiles : source_path \in [1 .. n -> Suffixes]
    /\ q_path_list = <<>>
    /\ target_path = None
    /\ futures = <<>>
    /\ q_list = <<>>
    /\ written = <<>>
    /\ questions = <<>>
    /\ bc = None
    /\ option_iter = 0
    /\ pc = "main"
    /\ raised = None
    /\ ref_image = None
    /\ sheet = <<>>
    /\ image = None
    /\ pixel_mask_dict = <<>>
    /\ box_middle_pixel_array = <<>>
    /\ filtered_image_data = None
    /\ p_of_sig_iter = 0
    /\ ref_and_matching_p_of_sig_dict = <<>>
    /\ params = None
    /\ transformed = None

distVars == <<ref_image, sheet, pixel_mask_dict, box_middle_pixel_array, image,
              filtered_image_data, p_of_sig_iter, ref_and_matching_p_of_sig_dict, params,
              transformed>>

\* __main__.py 21-25
ListSource ==
    /\ pc = "main"
    /\ q_path_list' = ListPaths(source_path)
    /\ pc' = "listed"
    /\ UNCHANGED <<distVars, raised, source_path, target_path, futures, q_list, written,
                   questions, bc, option_iter>>

\* the target directory asked for before the list is looked at
MutAskTargetFirst ==
    /\ pc = "listed"
    /\ target_path' = [kind |-> "Path"]
    /\ IF Len(q_path_list) = 0
       THEN /\ raised' = [kind |-> "ImageNotFound"]
            /\ pc' = "raised"
       ELSE /\ pc' = "target"
            /\ UNCHANGED raised
    /\ UNCHANGED <<distVars, source_path, q_path_list, futures, q_list, written,
                   questions, bc, option_iter>>

\* __main__.py 27-30: raise ImageNotFound, or ask for the target directory
AskTarget ==
    /\ pc = "listed"
    /\ IF Len(q_path_list) = 0
       THEN /\ raised' = [kind |-> "ImageNotFound"]
            /\ pc' = "raised"
            /\ UNCHANGED target_path
       ELSE /\ target_path' = [kind |-> "Path"]
            /\ pc' = "target"
            /\ UNCHANGED raised
    /\ UNCHANGED <<distVars, source_path, q_path_list, futures, q_list, written,
                   questions, bc, option_iter>>

\* __main__.py 36-37: ex.map submits one call of generate_questionnaire per
\* path, in the order of the list, and list() starts on an empty list
Map ==
    /\ pc = "target"
    /\ futures' = [k \in 1 .. Len(q_path_list) |-> [state |-> "pending", result |-> None]]
    /\ q_list' = <<>>
    /\ pc' = "map"
    /\ UNCHANGED <<distVars, raised, source_path, q_path_list, target_path, written,
                   questions, bc, option_iter>>

\* a worker process takes the oldest call that waits
WorkerTakes ==
    /\ \E k \in 1 .. Len(futures) :
          /\ futures[k].state = "pending"
          /\ \A j \in 1 .. k - 1 : futures[j].state # "pending"
          /\ futures' = [futures EXCEPT ![k].state = "running"]
    /\ UNCHANGED <<distVars, pc, raised, source_path, q_path_list, target_path, q_list,
                   written, questions, bc, option_iter>>

\* task.py 15-17 in a worker process: the call returns or raises, and the
\* pool keeps what it did as the result of the future
WorkerReturns ==
    /\ \E k \in 1 .. Len(futures) :
          /\ futures[k].state = "running"
          /\ futures' = [futures EXCEPT
                            ![k] = [state |-> "finished",
                                    result |-> generate_questionnaire(q_path_list[k])]]
    /\ UNCHANGED <<distVars, pc, raised, source_path, q_path_list, target_path, q_list,
                   written, questions, bc, option_iter>>

\* a pool that hands the exception of a call to main as a value
MutRaises(result) == FALSE

\* __main__.py 36-38: the iterator of ex.map raises in main what the call
\* raised in the worker
Raises(result) == result.kind # "Questionnaire"

\* __main__.py 36-38: list() takes the next result of ex.map, which waits
\* for the call to finish; the exception of a call leaves list(), the with
\* block (which waits for the calls that still run) and main()
Collect ==
    /\ pc = "map"
    /\ LET k == Len(q_list) + 1
       IN  /\ futures[k].state = "finished"
           /\ IF Raises(futures[k].result)
              THEN /\ raised' = futures[k].result
                   /\ pc' = "raised"
                   /\ UNCHANGED q_list
              ELSE /\ q_list' = Append(q_list, futures[k].result)
                   /\ pc' = IF k = Len(futures) THEN "collected" ELSE "map"
                   /\ UNCHANGED raised
    /\ UNCHANGED <<distVars, source_path, q_path_list, target_path, futures, written,
                   questions, bc, option_iter>>

-----------------------------------------------------------------------------
(* Questionnaire(image_path, ref, bc) and QuestionnaireStatsGenerator, as   *)
(* a caller with a Reference and a classifier uses them.  The Distortion    *)
(* of a document is the fit of Distortion() above; here a document comes    *)
(* with its image and its fitted parameters.                                *)

\* the Reference and the classifier every Questionnaire of a run is to share
SharedReference == [kind |-> "Reference"]

SharedBoxClassifier == [kind |-> "BoxClassifier"]

\* the questionnaires of a run are MaxDocuments at most
MaxDocuments == 2

\* questionnaire.py 34: _default_cropping_radius, scaled as the mark radius is
default_cropping_radius == default_mark_radius

\* questionnaire.py 37: _default_length_after_resizing, less than the
\* 2 * _default_cropping_radius + 1 cells of a side of the cropped image
default_length_after_resizing == 2 * default_cropping_radius

\* img.py 122-137: PIL resize, a new image that the image it is taken of and
\* the size determine
resize(img, width, height) ==
    [kind |-> "Image", of |-> img, width |-> width, height |-> height]

\* the classifiers: the network unpickled by BoxClassifier() is one function
\* from images to booleans; these stand for it
BoxClassifiers ==
    { [kind |-> "BoxClassifier", dnn |-> n] : n \in {"centre", "any", "never"} }

\* dnn.py 29-44: BoxClassifier.is_crossed
bc_is_crossed(classifier, image_to_analyse) ==
    LET data == image_to_analyse.of
    IN  CASE classifier.dnn = "centre" ->
                data[default_cropping_radius][default_cropping_radius] = gray_scale_black
          [] classifier.dnn = "any" ->
                \E a \in DOMAIN data : \E b \in DOMAIN data[a] :
                    data[a][b] = gray_scale_black
          [] OTHER -> FALSE

\* the centres <<y, x>> of the boxes of the reference sheet
BoxCentres ==
    { <<ReferenceBoxLoader[q][o].y, ReferenceBoxLoader[q][o].x>> :
        q \in 1 .. default_question_num, o \in 1 .. default_option_num }

\* the documents: no box crossed, every box crossed, the first, the last,
\* and a stroke next to the first box
Documents ==
    { Pattern(dark, gray_scale_black, gray_scale_white) :
        dark \in { {}, BoxCentres, { <<0, 0>> },
                   { <<(default_question_num - 1) * FilterRadius,
                       (default_option_num - 1) * FilterRadius>> },
                   { <<0, 1>> } } }

Frac(n) == [num |-> n, den |-> 1]

\* the fits of the documents: the identity, and one pixel to the right
Fits ==
    { [kind |-> "params", rank |-> 3,
       lin_tran_mtx |-> << <<Frac(1), Frac(0)>>, <<Frac(0), Frac(1)>> >>,
       translation_vec |-> <<Frac(dx), Frac(0)>>] : dx \in {0, 1} }

\* a caller holds a Reference and a classifier
QuestionnaireInit ==
    /\ bc \in BoxClassifiers
    /\ box_middle_pixel_array = ReferenceBoxLoader
    /\ target_path = [kind |-> "Path"]
    /\ pc = "Questionnaire"
    /\ source_path = <<>>
    /\ q_path_list = <<>>
    /\ futures = <<>>
    /\ q_list = <<>>
    /\ written = <<>>
    /\ questions = <<>>
    /\ option_iter = 0
    /\ raised = None
    /\ ref_image = None
    /\ sheet = <<>>
    /\ image = None
    /\ pixel_mask_dict = <<>>
    /\ filtered_image_data = None
    /\ p_of_sig_iter = 0
    /\ ref_and_matching_p_of_sig_dict = <<>>
    /\ params = None
    /\ transformed = None

\* questionnaire.py 337-345, 270-271: _Option(), the options of a _QuestionEntry
QuestionEntry(option_num) ==
    [o \in 1 .. option_num |-> [image |-> None, is_crossed |-> FALSE]]

\* questionnaire.py 52-61: __init__ up to the options; Distortion(image_path,
\* ref) has opened the image and fitted A and b
NewQuestionnaire ==
    /\ pc = "Questionnaire"
    /\ Len(q_list) < MaxDocuments
    /\ \E document \in Documents, fit \in Fits :
          /\ image' = document
          /\ params' = fit
    /\ questions' = [q \in 1 .. default_question_num |-> QuestionEntry(default_option_num)]
    /\ option_iter' = 0
    /\ pc' = "load"
    /\ UNCHANGED <<ref_image, sheet, pixel_mask_dict, box_middle_pixel_array,
                   filtered_image_data, p_of_sig_iter, ref_and_matching_p_of_sig_dict,
                   transformed, raised, source_path, q_path_list, target_path, futures,
                   q_list, written, bc>>

\* the question and the option the running loop has reached: the nested
\* for loops over range(1, question_num + 1) and range(1, option_num + 1)
LoopQuestion == (option_iter \div default_option_num) + 1

LoopOption == (option_iter % default_option_num) + 1

LoopLast == option_iter + 1 = default_question_num * default_option_num

\* questionnaire.py 145-160, 316-330: set_ques_opt_image
set_ques_opt_image(qs, question_num, option_num, option_image) ==
    [qs EXCEPT ![question_num][option_num].image = option_image]

\* questionnaire.py 129-143: _get_ques_opt_image
get_ques_opt_image(qs, question_num, option_num) == qs[question_num][option_num].image

\* a _cross that crosses the first option of the question
MutCross(qs, question_num, option_num) ==
    [qs EXCEPT ![question_num][1].is_crossed = TRUE]

\* questionnaire.py 101-111, 273-281, 347-349: _cross
Cross(qs, question_num, option_num) ==
    [qs EXCEPT ![question_num][option_num].is_crossed = TRUE]

\* questionnaire.py 174-180: one turn of the loops of _load_option_image
LoadOptionImage ==
    /\ pc = "load"
    /\ LET matching_box_center_pixel ==
               transform(get_box_center_pixel(LoopQuestion, LoopOption),
                         params.lin_tran_mtx, params.translation_vec)
           cropped == crop_around_middle_point(image, matching_box_center_pixel,
                                               default_cropping_radius)
           resized == resize(cropped, default_length_after_resizing,
                             default_length_after_resizing)
       IN  questions' = set_ques_opt_image(questions, LoopQuestion, LoopOption, resized)
    /\ option_iter' = IF LoopLast THEN 0 ELSE option_iter + 1
    /\ pc' = IF LoopLast THEN "process" ELSE "load"
    /\ UNCHANGED <<distVars, raised, source_path, q_path_list, target_path, futures,
                   q_list, written, bc>>

\* questionnaire.py 184-187: one turn of the loops of _process_option_image
ProcessOptionImage ==
    /\ pc = "process"
    /\ questions' =
          IF bc_is_crossed(bc, get_ques_opt_image(questions, LoopQuestion, LoopOption))
          THEN Cross(questions, LoopQuestion, LoopOption)
          ELSE questions
    /\ option_iter' = IF LoopLast THEN 0 ELSE option_iter + 1
    /\ pc' = IF LoopLast THEN "label" ELSE "process"
    /\ UNCHANGED <<distVars, raised, source_path, q_path_list, target_path, futures,
                   q_list, written, bc>>

\* questionnaire.py 66-68: the image is labelled and Questionnaire() returns;
\* the caller puts the Questionnaire on its list, and goes on to the next
\* document or to the statistics
LabelImage ==
    /\ pc = "label"
    /\ LET path == Path(Len(q_list) + 1, ".png")
       IN  q_list' = Append(q_list,
                            [kind |-> "Questionnaire",
                             args |-> <<path, SharedReference, SharedBoxClassifier>>,
                             path |-> path,
                             questions |-> questions])
    /\ \/ pc' = "Questionnaire"
       \/ pc' = "collected"
    /\ UNCHANGED <<distVars, raised, source_path, q_path_list, target_path, futures,
                   written, questions, bc, option_iter>>

\* questionnaire.py 113-127, 283-297, 351-353: Questionnaire.is_crossed
is_crossed(q, question_num, option_num) == q.questions[question_num][option_num].is_crossed

\* stats.py 22-39: stem + '_labelled' + suffix
get_default_labelled_image_name(questionnaire) ==
    [stem |-> questionnaire.path.name, labelled |-> TRUE,
     suffix |-> questionnaire.path.suffix]

\* __main__.py 40-42, stats.py 54-66: QuestionnaireStatsGenerator(q_list,
\* target_path).generate_labelled_images()
GenerateLabelledImages ==
    /\ pc = "collected"
    /\ written' = written \o
          [k \in 1 .. Len(q_list) |->
              [kind |-> "labelled", name |-> get_default_labelled_image_name(q_list[k])]]
    /\ pc' = "labelled"
    /\ UNCHANGED <<distVars, raised, source_path, q_path_list, target_path, futures,
                   q_list, questions, bc, option_iter>>

\* a sum that only notes that a cross was seen
MutAddCrosses(aggregated_data, q) ==
    [question \in 1 .. default_question_num |->
        [option \in 1 .. default_option_num |->
            IF is_crossed(q, question, option) THEN 1
            ELSE aggregated_data[question][option]]]

\* stats.py 83-86: one turn of the loop over the questionnaires
AddCrosses(aggregated_data, q) ==
    [question \in 1 .. default_question_num |->
        [option \in 1 .. default_option_num |->
            IF is_crossed(q, question, option)
            THEN aggregated_data[question][option] + 1
            ELSE aggregated_data[question][option]]]

\* stats.py 81-86: aggregated_data, from questionnaire k of the list on
RECURSIVE Aggregate(_, _, _)
Aggregate(ql, k, aggregated_data) ==
    IF k > Len(ql) THEN aggregated_data
    ELSE Aggregate(ql, k + 1, AddCrosses(aggregated_data, ql[k]))

\* stats.py 74-90: the cells of the sheet, row by row: the captions in row 1
\* and in column 1, the sums from row 2 and column 2 on
ReportCells(ql) ==
    LET aggregated_data ==
            Aggregate(ql, 1, [question \in 1 .. default_question_num |->
                                [option \in 1 .. default_option_num |-> 0]])
    IN  [row \in 1 .. default_question_num + 1 |->
            [column \in 1 .. default_option_num + 1 |->
                IF row = 1 /\ column = 1 THEN [kind |-> "empty"]
                ELSE IF column = 1 THEN [kind |-> "str", text |-> "Question", n |-> row - 1]
                ELSE IF row = 1 THEN [kind |-> "str", text |-> "Option", n |-> column - 1]
                ELSE [kind |-> "number", value |-> aggregated_data[row - 1][column - 1]]]]

\* __main__.py 43, stats.py 68-91: generate_aggregated_data_excel()
GenerateAggregatedDataExcel ==
    /\ pc = "labelled"
    /\ written' = Append(written, [kind |-> "excel", cells |-> ReportCells(q_list)])
    /\ pc' = "done"
    /\ UNCHANGED <<distVars, raised, source_path, q_path_list, target_path, futures,
                   q_list, questions, bc, option_iter>>

\* a batch run of main(), or a caller of Questionnaire() and of the statistics
AppInit == MainInit \/ QuestionnaireInit

AppNext ==
    \/ ListSource \/ AskTarget \/ Map \/ WorkerTakes \/ WorkerReturns \/ Collect
    \/ NewQuestionnaire \/ LoadOptionImage \/ ProcessOptionImage \/ LabelImage
    \/ GenerateLabelledImages \/ GenerateAggregatedDataExcel

AppSpec == AppInit /\ [][AppNext]_vars

\* what main has got from the iterator of ex.map: the results list() took
\* and the exception that left it
Received == IF raised = None THEN q_list ELSE Append(q_list, raised)

\* main() is past list(): it returned, or an exception left it
PastCollect ==
    /\ futures # <<>>
    /\ pc \in {"collected", "labelled", "done", "raised"}

\* C22: for every accepted image path the worker task constructs one
\* Questionnaire from that path, the shared Reference and the classifier,
\* and main receives exactly one result (a Questionnaire or a failure of its
\* construction) per path, in the order of the path list, whatever the
\* interleaving of the workers.
C22_OneResultPerPath ==
    /\ \A k \in 1 .. Len(futures) :
          futures[k].state = "finished" =>
              futures[k].result.args
                  = <<q_path_list[k], SharedReference, SharedBoxClassifier>>
    /\ PastCollect =>
          /\ Len(Received) = Len(q_path_list)
          /\ \A k \in 1 .. Len(q_path_list) : Received[k] = futures[k].result

\* C23: Pixel.transform is pure and deterministic: the coordinates it
\* returns are those the formula gives for the receiving pixel, the matrix
\* and the vector (so the same inputs give the same coordinates again), and
\* a call changes neither the receiving pixel nor the matrix nor the vector.
C23_TransformPure ==
    [][ (transformed' # transformed) =>
            (/\ params' = params
             /\ box_middle_pixel_array' = box_middle_pixel_array
             /\ \E question_num \in 1 .. default_question_num,
                   option_num \in 1 .. default_option_num :
                   transformed'.self = get_box_center_pixel(question_num, option_num)
             /\ transformed'.result = transform(transformed'.self, params.lin_tran_mtx,
                                                params.translation_vec)
             /\ (transformed # None /\ transformed.self = transformed'.self)
                    => transformed'.result = transformed.result) ]_vars

\* a box centre is mapped to another place, and then another box centre
C23_Witness ==
    /\ pc = "constructed" /\ transformed # None
    /\ transformed.self # get_box_center_pixel(1, 1)
    /\ transformed.result.x # transformed.self.x
    /\ params.translation_vec[1].num # 0

\* the reports written so far
Reports == { k \in 1 .. Len(written) : written[k].kind = "excel" }

\* C24: in the aggregated report the cell of question q and option o (row
\* q + 1, column o + 1 of the sheet) holds the number of questionnaires of
\* the list for which is_crossed(q, o) is true, for every question and every
\* option of the reference; every cell lies between 0 and the number of
\* questionnaires.
C24_CellCountsCrosses ==
    \A k \in Reports :
        \A q \in 1 .. default_question_num, o \in 1 .. default_option_num :
            LET cell == written[k].cells[q + 1][o + 1]
            IN  /\ cell.kind = "number"
                /\ cell.value =
                      Cardinality({ n \in 1 .. Len(q_list) : is_crossed(q_list[n], q, o) })
                /\ cell.value >= 0
                /\ cell.value <= Len(q_list)

\* a report over several questionnaires: an option every one of them crossed
\* and an option only some crossed
C24_Witness ==
    \E k \in Reports :
        /\ Len(q_list) >= 2
        /\ \E q \in 1 .. default_question_num, o \in 1 .. default_option_num :
              written[k].cells[q + 1][o + 1].value = Len(q_list)
        /\ \E q \in 1 .. default_question_num, o \in 1 .. default_option_num :
              /\ written[k].cells[q + 1][o + 1].value >= 1
              /\ written[k].cells[q + 1][o + 1].value < Len(q_list)

\* main() runs (no caller of Questionnaire() does)
InMain == pc \in {"main", "listed", "target", "map", "raised"} \/ futures # <<>>

\* no file of the source directory has one of the accepted suffixes
NoAcceptedFile ==
    \A k \in 1 .. Len(source_path) : source_path[k] \notin {".jpg", ".jpeg", ".png"}

\* C25: if the source directory holds no file with an accepted suffix (.jpg,
\* .jpeg, .png), main raises ImageNotFound before it asks for the target
\* directory, before any worker is started and before any output is written:
\* once past the listing it has raised, and at no time is there a target
\* directory, a task or an output.
C25_ImageNotFoundFirst ==
    (InMain /\ NoAcceptedFile) =>
        /\ target_path = None
        /\ futures = <<>>
        /\ written = <<>>
        /\ pc \in {"main", "listed", "raised"}
        /\ pc = "raised" => raised.kind = "ImageNotFound"
        /\ pc # "raised" => raised = None

\* a directory of files, none of them accepted: ImageNotFound has left main
C25_Witness ==
    /\ pc = "raised" /\ raised.kind = "ImageNotFound"
    /\ NoAcceptedFile
    /\ \E k \in 1 .. Len(source_path) : source_path[k] = ".JPG"
    /\ \E k \in 1 .. Len(source_path) : source_path[k] = ".txt"

\* C26: whenever the matcher returns, what it returns is a Pixel (never
\* None) that lies at most the search radius away from the reference
\* landmark, in x and in y (the entries of the dictionary are what the
\* matcher returned, until a caller of the Distortion sets them).
C26_MatchWithinSearchRadius ==
    pc \in {"match", "raised", "constructed"} =>
        \A j \in 1 .. Len(ref_and_matching_p_of_sig_dict) :
            LET entry == ref_and_matching_p_of_sig_dict[j]
            IN  /\ entry.kind = "Pixel"
                /\ Abs(entry.x - RefPoints[entry.key].x) <= default_search_radius
                /\ Abs(entry.y - RefPoints[entry.key].y) <= default_search_radius

\* a match at the far end of the search range, in x and in y
C26_Witness ==
    /\ JustMatched
    /\ LET entry == ref_and_matching_p_of_sig_dict[Latest]
       IN  /\ entry.kind = "Pixel"
           /\ entry.x - RefPoints[entry.key].x = default_search_radius
           /\ entry.y - RefPoints[entry.key].y = default_search_radius

\* the cells <<i, j>> of the target that the window around the candidate
\* centre yx shows
WindowCells(yx) ==
    LET sub == get_sub_array_around_middle_point(filtered_image_data, yx[1], yx[2],
                                                 default_mark_radius)
    IN  { <<sub.rows[a], sub.cols[b]>> : a \in 1 .. Len(sub.rows), b \in 1 .. Len(sub.cols) }

-----------------------------------------------------------------------------
(* Distortion._filter_out_edge on its own: grey targets, landmarks whose    *)
(* squares overlap, in every order.                                         *)

\* the landmarks of a sheet of the filter runs are MaxOverlap at most
MaxOverlap == 2

\* grey targets: values on both sides of the threshold
FilterImages ==
    { [i \in 0 .. Height - 1 |-> [j \in 0 .. Width - 1 |->
          default_data_edge_filtering_threshold - (Height \div 2) - (Width \div 2) + i + j]],
      [i \in 0 .. Height - 1 |-> [j \in 0 .. Width - 1 |->
          IF (i + j) % 2 = 0 THEN default_data_edge_filtering_threshold - 1
                             ELSE default_data_edge_filtering_threshold]],
      [i \in 0 .. Height - 1 |-> [j \in 0 .. Width - 1 |->
          IF i = j THEN gray_scale_black
          ELSE IF i < j THEN gray_scale_white
          ELSE (default_data_edge_filtering_threshold + i * Width + j) % Uint8]] }

\* the sheets: 1 to MaxOverlap different points of SheetPoints, in any order
FilterSheets ==
    LET picks == UNION { [1 .. n -> 1 .. Len(SheetPoints)] : n \in 1 .. MaxOverlap }
        apart == { p \in picks : \A a, b \in 1 .. Len(p) : a # b => p[a] # p[b] }
    IN  { [k \in 1 .. Len(p) |-> SheetPoints[p[k]]] : p \in apart }

FilterInit ==
    /\ NoApp
    /\ sheet \in FilterSheets
    /\ image \in FilterImages
    /\ ref_image = None
    /\ pixel_mask_dict = <<>>
    /\ box_middle_pixel_array = <<>>
    /\ filtered_image_data = None
    /\ p_of_sig_iter = 0
    /\ ref_and_matching_p_of_sig_dict = <<>>
    /\ params = None
    /\ transformed = None
    /\ pc = "filter"
    /\ raised = None

FilterNext == FilterOutEdge

FilterSpec == FilterInit /\ [][FilterNext]_vars

\* the landmarks of the sheet in the order perm
Reordered(perm) == [k \in 1 .. Len(sheet) |-> RefPoints[perm[k]]]

\* C28: the in-place binarization is idempotent with the threshold 200: a
\* cell that is BLACK or WHITE keeps its value when it is binarized again,
\* so the filtered target is the same in whatever order the landmarks are
\* taken and however their squares overlap (filtering it again changes
\* nothing), and the final value of a cell depends on its original
\* grayscale value only.
C28_Idempotent ==
    /\ \A v \in {gray_scale_black, gray_scale_white} :
          DataBinarize(v, default_data_edge_filtering_threshold) = v
    /\ pc = "match" =>
          /\ FilterPixels(filtered_image_data, RefPoints,
                          default_data_edge_filtering_threshold, FilterRadius)
                = filtered_image_data
          /\ \A perm \in Permutations(1 .. Len(sheet)) :
                FilterPixels(image, Reordered(perm),
                             default_data_edge_filtering_threshold, FilterRadius)
                    = filtered_image_data
          /\ \A c \in Cells :
                filtered_image_data[c[1]][c[2]] =
                    IF Processed(c[1], c[2])
                    THEN (IF image[c[1]][c[2]] < 200 THEN 0 ELSE 255)
                    ELSE image[c[1]][c[2]]

\* two landmarks whose squares overlap without being the same, on a target
\* with both sides of the threshold in the overlap and a cell left as it was
C28_Witness ==
    /\ pc = "match" /\ Len(sheet) >= 2
    /\ \E c, d \in Cells :
          /\ \A k \in 1 .. Len(sheet) :
                /\ c[1] \in RegionRows(RefPoints[k], FilterRadius)
                /\ c[2] \in RegionCols(RefPoints[k], FilterRadius)
                /\ d[1] \in RegionRows(RefPoints[k], FilterRadius)
                /\ d[2] \in RegionCols(RefPoints[k], FilterRadius)
          /\ image[c[1]][c[2]] = 199 /\ filtered_image_data[c[1]][c[2]] = 0
          /\ image[d[1]][d[2]] = 200 /\ filtered_image_data[d[1]][d[2]] = 255
    /\ \E c \in Cells :
          /\ \E k \in 1 .. Len(sheet) :
                /\ c[1] \in RegionRows(RefPoints[k], FilterRadius)
                /\ c[2] \in RegionCols(RefPoints[k], FilterRadius)
          /\ \E k \in 1 .. Len(sheet) :
                ~ (/\ c[1] \in RegionRows(RefPoints[k], FilterRadius)
                   /\ c[2] \in RegionCols(RefPoints[k], FilterRadius))
    /\ \E c \in Cells : ~ Processed(c[1], c[2])

\* the options <<question, option>> of a questionnaire
Options == (1 .. default_question_num) \X (1 .. default_option_num)

\* the constructor of the Questionnaire whose options `questions` holds is
\* past _process_option_image
Constructed == questions # <<>> /\ pc \notin {"load", "process"}

\* C29: after a Questionnaire is constructed, is_crossed(q, o) is true
\* exactly for the options on whose image the classifier returned true;
\* every option starts uncrossed and without an image, the image of every
\* option is set before the classifier is invoked on it, and an option once
\* crossed is never uncrossed.
C29_CrossedIffClassified ==
    [][ /\ (pc = "Questionnaire" /\ pc' = "load") =>
               \A c \in Options :
                   /\ questions'[c[1]][c[2]].image = None
                   /\ ~ questions'[c[1]][c[2]].is_crossed
        /\ (pc = "process") =>
               /\ get_ques_opt_image(questions, LoopQuestion, LoopOption) # None
               /\ \A c \in Options : questions[c[1]][c[2]].image # None
        /\ (questions # <<>> /\ pc # "Questionnaire") =>
               \A c \in Options :
                   questions[c[1]][c[2]].is_crossed => questions'[c[1]][c[2]].is_crossed
        /\ Constructed' =>
               /\ \A c \in Options :
                     questions'[c[1]][c[2]].is_crossed
                         <=> bc_is_crossed(bc', questions'[c[1]][c[2]].image)
               /\ pc' # "label" =>
                     \A c \in Options :
                         is_crossed(q_list'[Len(q_list')], c[1], c[2])
                             <=> bc_is_crossed(bc', questions'[c[1]][c[2]].image) ]_vars

\* a constructed Questionnaire with a crossed option that is not the first
\* of its question, and an option that is not crossed
C29_Witness ==
    /\ Constructed /\ Len(q_list) >= 1
    /\ \E c \in Options : c[2] > 1 /\ is_crossed(q_list[Len(q_list)], c[1], c[2])
    /\ \E c \in Options : ~ is_crossed(q_list[Len(q_list)], c[1], c[2])
    /\ \A c \in Options : questions[c[1]][c[2]].image # None

\* C30: main writes output (the labelled images, then the report) only
\* after the task of every document has finished; if a task raises, the
\* exception leaves the collection of the results, the batch is aborted and
\* nothing is written.
C30_WriteAfterAllTasks ==
    /\ futures # <<>> =>
          /\ (pc \in {"collected", "labelled", "done"} \/ written # <<>>) =>
                /\ \A k \in 1 .. Len(futures) :
                      /\ futures[k].state = "finished"
                      /\ futures[k].result.kind = "Questionnaire"
                /\ Len(q_list) = Len(futures)
          /\ raised # None => (pc = "raised" /\ written = <<>>)
          /\ (\E k \in 1 .. Len(futures) :
                 /\ k <= Len(Received)
                 /\ futures[k].result.kind # "Questionnaire")
                => (pc = "raised" /\ raised # None /\ written = <<>>)
    /\ \A k \in 1 .. Len(written) :
          IF k <= Len(q_list) THEN written[k].kind = "labelled"
          ELSE written[k].kind = "excel" /\ k = Len(q_list) + 1

\* the task of the first document has raised and the exception has left
\* main, while the task of another document still runs
C30_Witness ==
    /\ pc = "raised" /\ raised.kind = "TypeError"
    /\ Len(futures) >= 2
    /\ futures[1].state = "finished"
    /\ \E k \in 1 .. Len(futures) : futures[k].state = "running"
    /\ written = <<>>

====
